---- MODULE Spec2Model ----
(***************************************************************************)
(* Base-1: exact continued-fraction arithmetic.                            *)
(*                                                                         *)
(* The module models the Matter backends (unary strings, FastInteger,      *)
(* Gaussian integers), the Euclid generator, the single-slot Stream and    *)
(* the bihomographic gosper_engine.  Two specifications are defined:       *)
(*   Spec        one arithmetic case run on both integer backends side by  *)
(*               side, as the parametrised tests do;                       *)
(*   SpecEuclid  one standalone run of Euclid(numerator, denominator).     *)
(***************************************************************************)
EXTENDS Integers, Sequences, FiniteSets, TLC

\* ------------------------------------------------------------------------
\* Bounds of the model
\* ------------------------------------------------------------------------
MaxNum == 3
MaxDen == 3
MaxGauss == 2
MaxTerms == 6
MaxEntry == 2       \* largest numerator / denominator entry of a finite GCF source
MaxPairs == 2       \* largest number of pairs of a finite GCF source
MaxPolyLen == 2     \* longest coefficient list of a Polynomial operand
MaxPolyCoef == 1    \* largest magnitude of a Polynomial operand's coefficient
MaxPull == 10       \* most terms of one operand a response run is followed for
MaxDemand == 3      \* number of output terms the consumer of a response run asks for
MaxProbe == 2       \* GCFState entries handed to probe range over -MaxProbe..MaxProbe
MaxAlgCoef == 3     \* largest magnitude of a coefficient of an AlgebraicStream polynomial
MaxAlgTerms == 5    \* number of terms the consumer of an AlgebraicStream asks for
MaxSpawn == 2       \* number of Streams spawned from one CachedStream

Modes == {"physics", "science"}
Ops == {"add", "sub", "mul", "div"}

Abs(n) == IF n < 0 THEN -n ELSE n

\* Python's // on ints: floor toward minus infinity, d # 0
PyFloorDiv(n, d) == IF d > 0 THEN n \div d ELSE (-n) \div (-d)

\* ------------------------------------------------------------------------
\* unary.py: a value is a run of '|' tagged with its class.  Only the
\* length of the string matters, so the string is modelled by its length.
\* NegativeInteger("") is a distinct object from NonNegativeInteger("").
\* ------------------------------------------------------------------------
NonNegativeInteger(n) == [neg |-> FALSE, mag |-> n]
NegativeInteger(n) == [neg |-> TRUE, mag |-> n]

unary_len(v) == v.mag
unary_int(v) == IF v.neg THEN (-1) * v.mag ELSE v.mag
unary_is_vacuum(v) == v.mag = 0

\* NegativeInteger.__call__(input_data)
unary_call(self, input_data) ==
    IF unary_len(input_data) >= unary_len(self)
    THEN NonNegativeInteger(unary_len(input_data) - unary_len(self))
    ELSE NegativeInteger(unary_len(self) - unary_len(input_data))

smart_add(a, b) ==
    CASE (~a.neg) /\ (~b.neg) -> NonNegativeInteger(a.mag + b.mag)
      [] a.neg /\ b.neg -> NegativeInteger(a.mag + b.mag)
      [] (~a.neg) /\ b.neg -> unary_call(b, a)
      [] a.neg /\ (~b.neg) -> unary_call(a, b)

smart_mul(a, b) ==
    CASE (~a.neg) /\ (~b.neg) -> NonNegativeInteger(a.mag * unary_len(b))
      [] (~a.neg) /\ b.neg -> NegativeInteger(a.mag * unary_len(b))
      [] a.neg /\ (~b.neg) -> NegativeInteger(a.mag * unary_len(b))
      [] a.neg /\ b.neg -> NonNegativeInteger(a.mag * unary_len(b))

\* __sub__ of both unary classes: self + (other * NegativeInteger("|"))
unary_sub(self, other) == smart_add(self, smart_mul(other, NegativeInteger(1)))

\* smart_div, len_b # 0 (the caller checks): <<quotient, remainder>>
smart_div(a, b) ==
    LET q_mag == unary_len(a) \div unary_len(b)
        r_mag == unary_len(a) % unary_len(b)
    IN << IF a.neg = b.neg THEN NonNegativeInteger(q_mag) ELSE NegativeInteger(q_mag),
          IF ~a.neg THEN NonNegativeInteger(r_mag) ELSE NegativeInteger(r_mag) >>

\* ------------------------------------------------------------------------
\* science_mode.py: FastInteger wraps a native int; modelled by the int.
\* ------------------------------------------------------------------------
FastInteger_truediv(num, denom) ==
    LET q_mag == Abs(num) \div Abs(denom)
        r_mag == Abs(num) % Abs(denom)
    IN << IF (num < 0) # (denom < 0) THEN -q_mag ELSE q_mag,
          IF num < 0 THEN -r_mag ELSE r_mag >>

\* ------------------------------------------------------------------------
\* complex_mode.py: GaussianInteger, components are FastIntegers
\* ------------------------------------------------------------------------
GaussianInteger(real, imag) == [real |-> real, imag |-> imag]

Gaussian_mass(z) == Abs(z.real) + Abs(z.imag)
Gaussian_is_vacuum(z) == Gaussian_mass(z) = 0
norm_sq(z) == (z.real * z.real) + (z.imag * z.imag)

Gaussian_sub(z, w) == GaussianInteger(z.real - w.real, z.imag - w.imag)
Gaussian_mul(z, w) ==
    GaussianInteger((z.real * w.real) - (z.imag * w.imag),
                    (z.real * w.imag) + (z.imag * w.real))

\* truncated division, then one step away from zero when 2*|r| > |d|;
\* the direction is read off the sign of the truncated quotient
div_nearest(n, d) ==
    LET qr == FastInteger_truediv(n, d)
        q == qr[1]
        r == qr[2]
    IN IF 2 * Abs(r) > Abs(d)
       THEN (IF q >= d - d THEN q + 1 ELSE q - 1)
       ELSE q

\* GaussianInteger.__truediv__, norm_sq(other) # 0: <<quotient, remainder>>
Gaussian_truediv(self, other) ==
    LET denom_norm == norm_sq(other)
        ZERO == self.real - self.real
        other_conj_imag == ZERO - other.imag
        num_r == (self.real * other.real) - (self.imag * other_conj_imag)
        num_i == (self.real * other_conj_imag) + (self.imag * other.real)
        quotient == GaussianInteger(div_nearest(num_r, denom_norm),
                                    div_nearest(num_i, denom_norm))
    IN << quotient, Gaussian_sub(self, Gaussian_mul(other, quotient)) >>

\* ------------------------------------------------------------------------
\* The Matter operations the engine uses, dispatched on the backend
\* ------------------------------------------------------------------------
\* U(n) / S(n) factories of the backend
Matter(m, n) ==
    IF m = "physics"
    THEN (IF n >= 0 THEN NonNegativeInteger(n) ELSE NegativeInteger(-n))
    ELSE n

safe_int_val(m, v) == IF m = "physics" THEN unary_int(v) ELSE v
\* a slip in is_vacuum: on the unary backend only NonNegativeInteger("")
\* counts as vacuum, NegativeInteger("") does not
is_vacuum_unsigned(m, v) ==
    CASE m = "physics" -> (~v.neg) /\ unary_is_vacuum(v)
      [] m = "science" -> v = 0
      [] m = "complex" -> Gaussian_is_vacuum(v)

is_vacuum(m, v) ==
    CASE m = "physics" -> unary_is_vacuum(v)
      [] m = "science" -> v = 0
      [] m = "complex" -> Gaussian_is_vacuum(v)
mass(m, v) ==
    CASE m = "physics" -> unary_len(v)
      [] m = "science" -> Abs(v)
      [] m = "complex" -> Gaussian_mass(v)
add(m, u, v) == IF m = "physics" THEN smart_add(u, v) ELSE u + v
sub(m, u, v) == IF m = "physics" THEN unary_sub(u, v) ELSE u - v
mul(m, u, v) == IF m = "physics" THEN smart_mul(u, v) ELSE u * v
truediv(m, u, v) ==
    CASE m = "physics" -> smart_div(u, v)
      [] m = "science" -> FastInteger_truediv(u, v)
      [] m = "complex" -> Gaussian_truediv(u, v)

IntSeq(m, s) == [i \in 1..Len(s) |-> safe_int_val(m, s[i])]

\* ------------------------------------------------------------------------
\* algorithms.py: Euclid.  The generator's state is its two locals; one
\* resumption either stops (denominator vacuum) or yields one quotient and
\* moves (curr_num, curr_den) to (curr_den, remainder).
\* ------------------------------------------------------------------------
Euclid(numerator, denominator) == [curr_num |-> numerator, curr_den |-> denominator]

\* a slip in Euclid: the quotient, not the remainder, becomes the next
\* denominator
Euclid_next_quotient_kept(m, gen) ==
    IF is_vacuum(m, gen.curr_den)
    THEN [yielded |-> <<>>, gen |-> gen]
    ELSE LET qr == truediv(m, gen.curr_num, gen.curr_den)
         IN [yielded |-> <<qr[1]>>, gen |-> [curr_num |-> gen.curr_den, curr_den |-> qr[1]]]

\* next(gen): yielded is <<>> on StopIteration, <<quotient>> otherwise
Euclid_next(m, gen) ==
    IF is_vacuum(m, gen.curr_den)
    THEN [yielded |-> <<>>, gen |-> gen]
    ELSE LET qr == truediv(m, gen.curr_num, gen.curr_den)
         IN [yielded |-> <<qr[1]>>, gen |-> [curr_num |-> gen.curr_den, curr_den |-> qr[2]]]

\* get_floor / probe results: None or a value
None == [kind |-> "None"]
Some(v) == [kind |-> "value", val |-> v]

\* ------------------------------------------------------------------------
\* transcendental.py: GCFState (FastInteger coefficients)
\* ------------------------------------------------------------------------
GCFState == [A |-> 1, B |-> 0, C |-> 0, D |-> 1]

\* a slip in ingest: new_B takes b where the code takes a
GCF_ingest_b(st, a, b) ==
    [A |-> (st.A * b) + st.B, B |-> st.A * b, C |-> (st.C * b) + st.D, D |-> st.C * a]

GCF_ingest(st, a, b) ==
    [A |-> (st.A * b) + st.B, B |-> st.A * a, C |-> (st.C * b) + st.D, D |-> st.C * a]

GCF_emit(st, k) ==
    [A |-> st.C, B |-> st.D, C |-> st.A - (st.C * k), D |-> st.B - (st.D * k)]

GCF_get_floor(num, den) ==
    IF den = 0 THEN None ELSE Some(FastInteger_truediv(num, den)[1])

GCF_probe(st) ==
    LET f1 == GCF_get_floor(st.A, st.C)
        f2 == GCF_get_floor(st.B, st.D)
    IN IF f1.kind = "value" /\ f2.kind = "value" /\ f1.val = f2.val THEN f1 ELSE None

\* transcendental.py: the pair a source generator yields at its pos-th
\* resumption (pos counts from 0), for x = 1
ln_generator(x, pos) ==
    IF pos = 0 THEN <<x, 0>>
    ELSE IF pos = 1 THEN <<x, 1>>
    ELSE <<((pos - 1) * (pos - 1)) * x, pos>>

e_generator(x, pos) ==
    IF pos = 0 THEN <<2 * x, 1>>
    ELSE IF pos = 1 THEN <<x * x, 2 - x>>
    ELSE <<x * x, (4 * (pos - 1)) + 2>>

\* next(gcf_stream): <<>> on StopIteration, <<pair>> otherwise
gcf_next(src, pos) ==
    CASE src.kind = "ln" -> << ln_generator(1, pos) >>
      [] src.kind = "e" -> << e_generator(1, pos) >>
      [] src.kind = "list" ->
            IF pos < Len(src.items) THEN << src.items[pos + 1] >> ELSE << >>

\* gcf_to_scf as a generator object: its locals between two resumptions
gcf_to_scf(gcf_stream) ==
    [src |-> gcf_stream, pos |-> 0, state |-> GCFState, stream_active |-> TRUE,
     curr |-> [curr_num |-> 0, curr_den |-> 0], at |-> "loop"]

\* next(gen) on gcf_to_scf: the loop runs to its next yield (state.emit(k)
\* of the resumption is taken with the yield) or to the generator's return
RECURSIVE gcf_to_scf_next(_)
gcf_to_scf_next(gen) ==
    CASE gen.at = "done" -> [yielded |-> << >>, gen |-> gen]
      [] gen.at = "drain" ->
            IF gen.curr.curr_den = 0
            THEN [yielded |-> << >>, gen |-> [gen EXCEPT !.at = "done"]]
            ELSE LET qr == FastInteger_truediv(gen.curr.curr_num, gen.curr.curr_den)
                 IN [yielded |-> <<qr[1]>>,
                     gen |-> [gen EXCEPT !.curr = [curr_num |-> gen.curr.curr_den,
                                                   curr_den |-> qr[2]]]]
      [] gen.at = "loop" ->
            LET k == GCF_probe(gen.state)
            IN IF k.kind = "value"
               THEN [yielded |-> <<k.val>>,
                     gen |-> [gen EXCEPT !.state = GCF_emit(gen.state, k.val)]]
               ELSE IF gen.stream_active /\ gcf_next(gen.src, gen.pos) # << >>
               THEN LET ab == gcf_next(gen.src, gen.pos)[1]
                    IN gcf_to_scf_next([gen EXCEPT !.state = GCF_ingest(gen.state, ab[1], ab[2]),
                                                   !.pos = @ + 1])
               ELSE gcf_to_scf_next([gen EXCEPT !.stream_active = FALSE, !.at = "drain",
                                                !.curr = [curr_num |-> gen.state.A,
                                                          curr_den |-> gen.state.C]])

\* next(self._gen): the Stream holds any generator
\* riemann_siegel.py: CachedStream._reader as a generator object over the
\* list data, i items yielded so far
\* a slip in _reader: the iteration starts at the second item
reader_from_second(data) == [data |-> data, i |-> 1]

reader(data) == [data |-> data, i |-> 0]

reader_next(gen) ==
    IF gen.i < Len(gen.data)
    THEN [yielded |-> <<gen.data[gen.i + 1]>>, gen |-> [gen EXCEPT !.i = @ + 1]]
    ELSE [yielded |-> << >>, gen |-> gen]

generator_next(m, gen) ==
    IF "state" \in DOMAIN gen THEN gcf_to_scf_next(gen)
    ELSE IF "data" \in DOMAIN gen THEN reader_next(gen)
    ELSE Euclid_next(m, gen)

\* ------------------------------------------------------------------------
\* stream.py: Stream.  _head is <<>> for None, <<v>> for a buffered value;
\* pos counts the successful consume calls, pulls the next(self._gen) calls.
\* ------------------------------------------------------------------------
Stream_fill(m, s) ==
    LET r == generator_next(m, s.gen)
    IN [s EXCEPT !.head = r.yielded, !.gen = r.gen, !.pulls = @ + 1]

\* a slip in __init__: the register is not charged
Stream_uncharged(m, generator) == [head |-> <<>>, gen |-> generator, pos |-> 0, pulls |-> 0]

Stream(m, generator) ==
    Stream_fill(m, [head |-> <<>>, gen |-> generator, pos |-> 0, pulls |-> 0])

\* a slip in head: the observation shows the generator's pending numerator
\* instead of the register
Stream_head_ahead(s) == IF s.head = << >> THEN << >> ELSE <<s.gen.curr_num>>

Stream_head(s) == s.head

\* consume with a value in the register: <<returned value, stream afterwards>>
Stream_consume(m, s) == << s.head[1], Stream_fill(m, [s EXCEPT !.pos = @ + 1]) >>

\* a slip in consume: the register is filled twice, one value is skipped
consume_skipping(m, s) ==
    IF Stream_head(s) = << >>
    THEN [raised |-> TRUE, val |-> << >>, stream |-> s]
    ELSE [raised |-> FALSE, val |-> Stream_head(s),
          stream |-> Stream_fill(m, Stream_fill(m, [s EXCEPT !.pos = @ + 1]))]

\* a slip in consume: an exhausted register is filled again before raising
consume_refilling(m, s) ==
    IF Stream_head(s) = << >>
    THEN [raised |-> TRUE, val |-> << >>, stream |-> Stream_fill(m, s)]
    ELSE [raised |-> FALSE, val |-> <<Stream_consume(m, s)[1]>>,
          stream |-> Stream_consume(m, s)[2]]

\* consume as any caller sees it: StopIteration is raised on an empty
\* register, otherwise the buffered value is returned and the register filled
consume(m, s) ==
    IF Stream_head(s) = << >>
    THEN [raised |-> TRUE, val |-> << >>, stream |-> s]
    ELSE [raised |-> FALSE, val |-> <<Stream_consume(m, s)[1]>>,
          stream |-> Stream_consume(m, s)[2]]

\* ------------------------------------------------------------------------
\* gosper.py: GosperState
\* ------------------------------------------------------------------------
GosperState(a, b, c, d, e, f, g, h) ==
    [a |-> a, b |-> b, c |-> c, d |-> d, e |-> e, f |-> f, g |-> g, h |-> h]

\* a slip in ingest_x: the new a..d row forgets the carried c and d
ingest_x_uncarried(m, s, p) ==
    GosperState(mul(m, s.a, p), mul(m, s.b, p), s.a, s.b,
                add(m, mul(m, s.e, p), s.g), add(m, mul(m, s.f, p), s.h), s.e, s.f)

ingest_x(m, s, p) ==
    GosperState(add(m, mul(m, s.a, p), s.c), add(m, mul(m, s.b, p), s.d), s.a, s.b,
                add(m, mul(m, s.e, p), s.g), add(m, mul(m, s.f, p), s.h), s.e, s.f)

\* a slip in ingest_y: the new a and e forget the carried b and f
ingest_y_uncarried(m, s, q) ==
    GosperState(mul(m, s.a, q), s.a, add(m, mul(m, s.c, q), s.d), s.c,
                mul(m, s.e, q), s.e, add(m, mul(m, s.g, q), s.h), s.g)

\* a slip in ingest_y: the b and c columns are not exchanged
ingest_y_swapped(m, s, q) ==
    GosperState(add(m, mul(m, s.a, q), s.c), add(m, mul(m, s.b, q), s.d), s.a, s.b,
                add(m, mul(m, s.e, q), s.g), add(m, mul(m, s.f, q), s.h), s.e, s.f)

ingest_y(m, s, q) ==
    GosperState(add(m, mul(m, s.a, q), s.b), s.a, add(m, mul(m, s.c, q), s.d), s.c,
                add(m, mul(m, s.e, q), s.f), s.e, add(m, mul(m, s.g, q), s.h), s.g)

\* a slip in emit: the remainder row subtracts e..h once, not k times
emit_unscaled(m, s, k) ==
    GosperState(s.e, s.f, s.g, s.h,
                sub(m, s.a, s.e), sub(m, s.b, s.f), sub(m, s.c, s.g), sub(m, s.d, s.h))

emit(m, s, k) ==
    GosperState(s.e, s.f, s.g, s.h,
                sub(m, s.a, mul(m, s.e, k)), sub(m, s.b, mul(m, s.f, k)),
                sub(m, s.c, mul(m, s.g, k)), sub(m, s.d, mul(m, s.h, k)))

\* ------------------------------------------------------------------------
\* gosper.py: gosper_engine, one candidate.  The result is None, a Matter
\* value, or the TypeError that "q + diff" raises when q is a unary object
\* and diff a native int (smart_add matches neither operand and the native
\* int has no reflected addition for it).
\* ------------------------------------------------------------------------
TypeError == [kind |-> "TypeError"]

\* a slip in get_floor: the truncated quotient is returned without the
\* correction to the floor
get_floor_truncated(m, num, den) ==
    IF is_vacuum(m, den) THEN None
    ELSE Some(truediv(m, num, den)[1])

get_floor(m, num, den) ==
    IF is_vacuum(m, den) THEN None
    ELSE LET q == truediv(m, num, den)[1]
             n_val == safe_int_val(m, num)
             d_val == safe_int_val(m, den)
         IN IF d_val = 0 THEN None
            ELSE LET q_floor == PyFloorDiv(n_val, d_val)
                 IN IF safe_int_val(m, q) = q_floor THEN Some(q)
                    ELSE IF m = "physics" THEN TypeError
                    ELSE Some(q + (q_floor - safe_int_val(m, q)))

\* the candidates list of one loop iteration, in the order the code appends
candidates(m, s, xa, ya) ==
    << get_floor(m, s.a, s.e) >>
    \o (IF xa /\ ya
        THEN << get_floor(m, add(m, add(m, add(m, s.a, s.b), s.c), s.d),
                             add(m, add(m, add(m, s.e, s.f), s.g), s.h)) >>
        ELSE << >>)
    \o (IF ya THEN << get_floor(m, add(m, s.a, s.b), add(m, s.e, s.f)) >> ELSE << >>)
    \o (IF xa THEN << get_floor(m, add(m, s.a, s.c), add(m, s.e, s.g)) >> ELSE << >>)

\* an exception raised while the candidates are computed leaves the generator
raises(cs) == \E i \in 1..Len(cs) : cs[i].kind = "TypeError"

\* k is not None: every candidate is valid and all have first's integer value
consensus(m, cs) ==
    /\ \A i \in 1..Len(cs) : cs[i].kind = "value"
    /\ \A i \in 1..Len(cs) : safe_int_val(m, cs[i].val) = safe_int_val(m, cs[1].val)

\* ------------------------------------------------------------------------
\* State
\* ------------------------------------------------------------------------
VARIABLES
    op,         \* the operator of the case
    xin, yin,   \* the operands, <<p, q>> for p/q
    turn,       \* the backend whose run takes the next step
    state,      \* state[m]: the GosperState of the run on backend m
    x_alive, y_alive,       \* the liveness flags of each run
    x_stream, y_stream,     \* the operand Streams of each run
    out,        \* out[m]: the terms the engine has yielded so far
    pc,         \* "loop", "drain", "done" (generator returned), "failed" (raised)
    curr,       \* curr[m]: curr_num and curr_den of the drain loop
    e_dom, e_in, e_gen, e_out, e_pc,    \* the standalone Euclid run
    s_dom, s_in,    \* the Stream exercised on its own: backend and Euclid input
    s_stream,       \* the Stream object
    s_got,          \* the values consume has returned so far
    s_last,         \* the outcome of the last call on the Stream
    s_pc,           \* "idle" or "live"
    g_src,          \* the GCF source given to gcf_to_scf: [kind, items]
    g_pos,          \* the number of pairs the source has yielded
    g_state,        \* the GCFState
    g_active,       \* stream_active
    g_out,          \* the terms gcf_to_scf has yielded so far
    g_curr,         \* curr_num and curr_den of the drain loop
    g_pc,           \* "idle", "loop", "drain", "done"
    d_dom,          \* the backend of a single division a / b
    d_a, d_b,       \* its operands
    d_res,          \* its outcome: a (quotient, remainder) pair or an exception
    d_pc,           \* "idle", "ready", "returned", "raised"
    a_dom,          \* the backend of an AlgebraicStream run
    a_in,           \* the coefficients (as ints, low to high) of its polynomial
    a_P,            \* current_P
    a_k,            \* k_int
    a_sign,         \* start_sign
    a_step,         \* step of the for loop
    a_out,          \* the terms AlgebraicStream has yielded so far
    a_pc,           \* "idle", "scan", "done" (returned), "failed" (RuntimeError)
    c_in,           \* the Euclid input <<p, q>> behind a CachedStream's source
    c_source,       \* the source Stream handed to CachedStream
    c_data,         \* CachedStream.data
    c_spawned,      \* the Streams spawn() has returned, in order
    c_got,          \* c_got[i]: the values consume has returned on c_spawned[i]
    c_pc            \* "idle", "new" (before __init__), "ready"

caseVars == <<op, xin, yin>>
engineVars == <<turn, state, x_alive, y_alive, x_stream, y_stream, out, pc, curr>>
euclidVars == <<e_dom, e_in, e_gen, e_out, e_pc>>
streamVars == <<s_dom, s_in, s_stream, s_got, s_last, s_pc>>
gcfVars == <<g_src, g_pos, g_state, g_active, g_out, g_curr, g_pc>>
divVars == <<d_dom, d_a, d_b, d_res, d_pc>>
auxVars == <<streamVars, gcfVars, divVars>>
algVars == <<a_dom, a_in, a_P, a_k, a_sign, a_step, a_out, a_pc>>
cacheVars == <<c_in, c_source, c_data, c_spawned, c_got, c_pc>>
labVars == <<algVars, cacheVars>>
vars == <<caseVars, engineVars, euclidVars, auxVars, labVars>>

\* ------------------------------------------------------------------------
\* continued_fraction.py: the coefficients each operator seeds the engine with
\* ------------------------------------------------------------------------
OpCoeffs(o) ==
    CASE o = "add" -> <<0, 1, 1, 0, 0, 0, 0, 1>>
      [] o = "sub" -> <<0, 1, -1, 0, 0, 0, 0, 1>>
      [] o = "mul" -> <<1, 0, 0, 0, 0, 0, 0, 1>>
      [] o = "div" -> <<0, 1, 0, 0, 0, 0, 1, 0>>

seed(m, o) ==
    LET c == OpCoeffs(o)
    IN GosperState(Matter(m, c[1]), Matter(m, c[2]), Matter(m, c[3]), Matter(m, c[4]),
                   Matter(m, c[5]), Matter(m, c[6]), Matter(m, c[7]), Matter(m, c[8]))

\* make_cf / create_cf of the tests: ContinuedFraction(Stream(Euclid(num, den)))
make_cf(m, v) == Stream(m, Euclid(Matter(m, v[1]), Matter(m, v[2])))

Rationals == (-MaxNum..MaxNum) \X (1..MaxDen)

Other(m) == IF m = "physics" THEN "science" ELSE "physics"
Running(m) == pc[m] \in {"loop", "drain"}

\* the two runs of a case alternate while both are running
Pass(m) == turn' = IF Running(Other(m)) THEN Other(m) ELSE m

EuclidIdle ==
    /\ e_dom = "science"
    /\ e_in = <<0, 0>>
    /\ e_gen = Euclid(0, 0)
    /\ e_out = << >>
    /\ e_pc = "idle"

StreamIdle ==
    /\ s_dom = "science"
    /\ s_in = <<0, 0>>
    /\ s_stream = make_cf("science", <<0, 0>>)
    /\ s_got = << >>
    /\ s_last = [kind |-> "none"]
    /\ s_pc = "idle"


GcfIdle ==
    /\ g_src = [kind |-> "list", items |-> << >>]
    /\ g_pos = 0
    /\ g_state = GCFState
    /\ g_active = FALSE
    /\ g_out = << >>
    /\ g_curr = [curr_num |-> 0, curr_den |-> 0]
    /\ g_pc = "idle"

\* ------------------------------------------------------------------------
\* polynomial.py: Polynomial over FastInteger coefficients, a sequence of
\* coefficients from the constant term up
\* ------------------------------------------------------------------------
\* __post_init__: trailing vacuum coefficients are dropped down to one
RECURSIVE Polynomial(_)
Polynomial(coeffs) ==
    IF Len(coeffs) > 1 /\ coeffs[Len(coeffs)] = 0
    THEN Polynomial(SubSeq(coeffs, 1, Len(coeffs) - 1))
    ELSE coeffs

\* [ZERO] * n
RECURSIVE Zeros(_)
Zeros(n) == IF n = 0 THEN << >> ELSE Append(Zeros(n - 1), 0)

\* the inner while of __truediv__: vacuum leading coefficients are popped
RECURSIVE Poly_pop(_)
Poly_pop(cs) ==
    IF Len(cs) > 0 /\ cs[Len(cs)] = 0 THEN Poly_pop(SubSeq(cs, 1, Len(cs) - 1)) ELSE cs

\* the outer while of __truediv__: <<quotient_coeffs, dividend_coeffs>>
RECURSIVE Poly_div_loop(_, _, _)
Poly_div_loop(dividend, divisor, quotient) ==
    IF Len(dividend) < Len(divisor) THEN <<quotient, dividend>>
    ELSE LET factor == FastInteger_truediv(dividend[Len(dividend)], divisor[Len(divisor)])[1]
             deg_diff == Len(dividend) - Len(divisor)
             subtracted == [i \in 1..Len(dividend) |->
                              IF i > deg_diff /\ i - deg_diff <= Len(divisor)
                              THEN dividend[i] - (divisor[i - deg_diff] * factor)
                              ELSE dividend[i]]
         IN IF factor = 0 THEN <<quotient, dividend>>
            ELSE Poly_div_loop(Poly_pop(subtracted), divisor,
                               [quotient EXCEPT ![deg_diff + 1] = @ + factor])

ZeroDivisionError == [kind |-> "ZeroDivisionError"]
IndexError == [kind |-> "IndexError"]
Pair(q, r) == [kind |-> "value", q |-> q, r |-> r]

\* Polynomial.__truediv__: self.coeffs[0] is read before the divisor is
\* checked
Polynomial_truediv(a, b) ==
    IF Len(a) = 0 THEN IndexError
    ELSE IF Len(b) = 0 \/ b[Len(b)] = 0 THEN ZeroDivisionError
    ELSE LET qr == Poly_div_loop(a, b, Zeros(Len(a)))
         IN Pair(Polynomial(qr[1]), Polynomial(IF qr[2] = << >> THEN <<0>> ELSE qr[2]))

\* a slip in smart_div: the remainder takes the sign of the divisor
smart_div_call_divisor_sign(a, b) ==
    IF unary_len(b) = 0 THEN ZeroDivisionError
    ELSE Pair(smart_div(a, b)[1],
              IF ~b.neg THEN NonNegativeInteger(unary_len(smart_div(a, b)[2]))
                        ELSE NegativeInteger(unary_len(smart_div(a, b)[2])))

\* the divisions as a caller sees them, with the vacuum check
smart_div_call(a, b) ==
    IF unary_len(b) = 0 THEN ZeroDivisionError
    ELSE Pair(smart_div(a, b)[1], smart_div(a, b)[2])

FastInteger_truediv_call(a, b) ==
    IF b = 0 THEN ZeroDivisionError
    ELSE Pair(FastInteger_truediv(a, b)[1], FastInteger_truediv(a, b)[2])

Gaussian_truediv_call(a, b) ==
    IF norm_sq(b) = 0 THEN ZeroDivisionError
    ELSE Pair(Gaussian_truediv(a, b)[1], Gaussian_truediv(a, b)[2])

divide(dom, a, b) ==
    CASE dom = "physics" -> smart_div_call(a, b)
      [] dom = "science" -> FastInteger_truediv_call(a, b)
      [] dom = "complex" -> Gaussian_truediv_call(a, b)
      [] dom = "polynomial" -> Polynomial_truediv(a, b)

\* is_vacuum of a value of each backend
vacuum(dom, v) ==
    CASE dom = "physics" -> unary_is_vacuum(v)
      [] dom = "science" -> v = 0
      [] dom = "complex" -> Gaussian_is_vacuum(v)
      [] dom = "polynomial" -> \A i \in 1..Len(v) : v[i] = 0

DivIdle ==
    /\ d_dom = "science"
    /\ d_a = 0
    /\ d_b = 0
    /\ d_res = [kind |-> "none"]
    /\ d_pc = "idle"

AlgIdle ==
    /\ a_dom = "science"
    /\ a_in = <<0>>
    /\ a_P = <<0>>
    /\ a_k = 0
    /\ a_sign = FALSE
    /\ a_step = 0
    /\ a_out = << >>
    /\ a_pc = "idle"

CacheIdle ==
    /\ c_in = <<0, 0>>
    /\ c_source = << >>
    /\ c_data = << >>
    /\ c_spawned = << >>
    /\ c_got = << >>
    /\ c_pc = "idle"

LabIdle == AlgIdle /\ CacheIdle

AuxIdle == StreamIdle /\ GcfIdle /\ DivIdle

Init ==
    /\ op \in Ops
    /\ xin \in Rationals
    /\ yin \in Rationals
    /\ turn = "physics"
    /\ state = [m \in Modes |-> seed(m, op)]
    /\ x_alive = [m \in Modes |-> TRUE]
    /\ y_alive = [m \in Modes |-> TRUE]
    /\ x_stream = [m \in Modes |-> make_cf(m, xin)]
    /\ y_stream = [m \in Modes |-> make_cf(m, yin)]
    /\ out = [m \in Modes |-> << >>]
    /\ pc = [m \in Modes |-> "loop"]
    /\ curr = [m \in Modes |-> [curr_num |-> Matter(m, 0), curr_den |-> Matter(m, 0)]]
    /\ EuclidIdle
    /\ AuxIdle
    /\ LabIdle

\* ------------------------------------------------------------------------
\* gosper.py: gosper_engine, one iteration of the while loop per action
\* ------------------------------------------------------------------------
\* a slip in yield: the digit is put in front of the digits emitted so far
yield_prepended(output, k) == <<k>> \o output

\* yield k / yield q: the consumer's sequence gains the yielded term
yield(output, k) == Append(output, k)

cands(m) == candidates(m, state[m], x_alive[m], y_alive[m])
\* a slip in the input choice: x is read only while it is not ahead of y
XHasTerm_in_turn(m) ==
    x_alive[m] /\ Stream_head(x_stream[m]) # << >> /\ x_stream[m].pos <= y_stream[m].pos

XHasTerm(m) == x_alive[m] /\ Stream_head(x_stream[m]) # << >>
YHasTerm(m) == y_alive[m] /\ Stream_head(y_stream[m]) # << >>

\* get_floor raises: the exception leaves the generator, which is then dead
FailStep(m) ==
    /\ turn = m /\ pc[m] = "loop"
    /\ raises(cands(m))
    /\ pc' = [pc EXCEPT ![m] = "failed"]
    /\ Pass(m)
    /\ UNCHANGED <<caseVars, labVars, state, x_alive, y_alive, x_stream, y_stream, out, curr, euclidVars, auxVars>>

\* consensus: yield k, state.emit(k), continue
EmitStep(m) ==
    /\ turn = m /\ pc[m] = "loop"
    /\ ~raises(cands(m))
    /\ consensus(m, cands(m))
    /\ LET k == cands(m)[1].val
       IN /\ out' = [out EXCEPT ![m] = yield(@, k)]
          /\ state' = [state EXCEPT ![m] = emit(m, @, k)]
    /\ Pass(m)
    /\ UNCHANGED <<caseVars, labVars, x_alive, y_alive, x_stream, y_stream, pc, curr, euclidVars, auxVars>>

\* no consensus, x has a term: state.ingest_x(x_stream.consume())
IngestXStep(m) ==
    /\ turn = m /\ pc[m] = "loop"
    /\ ~raises(cands(m))
    /\ ~consensus(m, cands(m))
    /\ XHasTerm(m)
    /\ LET r == Stream_consume(m, x_stream[m])
       IN /\ state' = [state EXCEPT ![m] = ingest_x(m, @, r[1])]
          /\ x_stream' = [x_stream EXCEPT ![m] = r[2]]
    /\ Pass(m)
    /\ UNCHANGED <<caseVars, labVars, x_alive, y_alive, y_stream, out, pc, curr, euclidVars, auxVars>>

\* a slip in the y branch: x is marked dead and y is consumed without
\* x's head having been looked at
IngestYStep_blind(m) ==
    /\ turn = m /\ pc[m] = "loop"
    /\ ~raises(cands(m))
    /\ ~consensus(m, cands(m))
    /\ YHasTerm(m)
    /\ x_alive' = [x_alive EXCEPT ![m] = FALSE]
    /\ LET r == Stream_consume(m, y_stream[m])
       IN /\ state' = [state EXCEPT ![m] = ingest_y(m, @, r[1])]
          /\ y_stream' = [y_stream EXCEPT ![m] = r[2]]
    /\ Pass(m)
    /\ UNCHANGED <<caseVars, labVars, y_alive, x_stream, out, pc, curr, euclidVars, auxVars>>

\* no consensus, x dead or found exhausted, y has a term:
\* x_alive = False, state.ingest_y(y_stream.consume())
IngestYStep(m) ==
    /\ turn = m /\ pc[m] = "loop"
    /\ ~raises(cands(m))
    /\ ~consensus(m, cands(m))
    /\ ~XHasTerm(m)
    /\ YHasTerm(m)
    /\ x_alive' = [x_alive EXCEPT ![m] = FALSE]
    /\ LET r == Stream_consume(m, y_stream[m])
       IN /\ state' = [state EXCEPT ![m] = ingest_y(m, @, r[1])]
          /\ y_stream' = [y_stream EXCEPT ![m] = r[2]]
    /\ Pass(m)
    /\ UNCHANGED <<caseVars, labVars, y_alive, x_stream, out, pc, curr, euclidVars, auxVars>>

\* no consensus and nothing consumed: both flags end False and the
\* iteration enters the drain loop on a/e
HaltStep(m) ==
    /\ turn = m /\ pc[m] = "loop"
    /\ ~raises(cands(m))
    /\ ~consensus(m, cands(m))
    /\ ~XHasTerm(m)
    /\ ~YHasTerm(m)
    /\ x_alive' = [x_alive EXCEPT ![m] = FALSE]
    /\ y_alive' = [y_alive EXCEPT ![m] = FALSE]
    /\ curr' = [curr EXCEPT ![m] = [curr_num |-> state[m].a, curr_den |-> state[m].e]]
    /\ pc' = [pc EXCEPT ![m] = "drain"]
    /\ Pass(m)
    /\ UNCHANGED <<caseVars, labVars, state, x_stream, y_stream, out, euclidVars, auxVars>>

\* drain loop body: q, r = curr_num / curr_den; yield q
DrainStep(m) ==
    /\ turn = m /\ pc[m] = "drain"
    /\ ~is_vacuum(m, curr[m].curr_den)
    /\ LET qr == truediv(m, curr[m].curr_num, curr[m].curr_den)
       IN /\ out' = [out EXCEPT ![m] = yield(@, qr[1])]
          /\ curr' = [curr EXCEPT ![m] = [curr_num |-> curr[m].curr_den, curr_den |-> qr[2]]]
    /\ Pass(m)
    /\ UNCHANGED <<caseVars, labVars, state, x_alive, y_alive, x_stream, y_stream, pc, euclidVars, auxVars>>

\* drain loop exit: break, the generator returns
DrainEnd(m) ==
    /\ turn = m /\ pc[m] = "drain"
    /\ is_vacuum(m, curr[m].curr_den)
    /\ pc' = [pc EXCEPT ![m] = "done"]
    /\ Pass(m)
    /\ UNCHANGED <<caseVars, labVars, state, x_alive, y_alive, x_stream, y_stream, out, curr, euclidVars, auxVars>>

Next ==
    \/ \E m \in Modes : FailStep(m)
    \/ \E m \in Modes : EmitStep(m)
    \/ \E m \in Modes : IngestXStep(m)
    \/ \E m \in Modes : IngestYStep(m)
    \/ \E m \in Modes : HaltStep(m)
    \/ \E m \in Modes : DrainStep(m)
    \/ \E m \in Modes : DrainEnd(m)

Spec == Init /\ [][Next]_vars

\* ------------------------------------------------------------------------
\* algorithms.py: Euclid run on its own, one resumption per action, over
\* the two integer backends and the Gaussian integers
\* ------------------------------------------------------------------------
Domains == {"physics", "science", "complex"}

\* test_rational.py / test_complex_euclid.py cases beyond the box
RationalCases == {<<10, 7>>, <<415, 93>>, <<1, 5>>, <<7, 1>>}
ComplexCases == {<< <<10, 0>>, <<3, 1>> >>, << <<5, 2>>, <<2, 1>> >>}

GaussBox == (-MaxGauss..MaxGauss) \X (-MaxGauss..MaxGauss)

EuclidInputs(dom) ==
    IF dom = "complex"
    THEN (GaussBox \X GaussBox) \cup ComplexCases
    ELSE ((-MaxNum..MaxNum) \X (-MaxDen..MaxDen)) \cup RationalCases

\* U / S / C factories
MatterOf(dom, v) == IF dom = "complex" THEN GaussianInteger(v[1], v[2]) ELSE Matter(dom, v)

EngineIdle ==
    /\ op = "add" /\ xin = <<0, 1>> /\ yin = <<0, 1>>
    /\ turn = "physics"
    /\ state = [m \in Modes |-> seed(m, "add")]
    /\ x_alive = [m \in Modes |-> FALSE]
    /\ y_alive = [m \in Modes |-> FALSE]
    /\ x_stream = [m \in Modes |-> make_cf(m, <<0, 0>>)]
    /\ y_stream = [m \in Modes |-> make_cf(m, <<0, 0>>)]
    /\ out = [m \in Modes |-> << >>]
    /\ pc = [m \in Modes |-> "idle"]
    /\ curr = [m \in Modes |-> [curr_num |-> Matter(m, 0), curr_den |-> Matter(m, 0)]]

InitEuclid ==
    /\ e_dom \in Domains
    /\ e_in \in EuclidInputs(e_dom)
    /\ e_gen = Euclid(MatterOf(e_dom, e_in[1]), MatterOf(e_dom, e_in[2]))
    /\ e_out = << >>
    /\ e_pc = "run"
    /\ EngineIdle
    /\ LabIdle
    /\ AuxIdle

\* the loop body: the denominator is not vacuum, one quotient is yielded
EuclidYield ==
    /\ e_pc = "run"
    /\ Len(e_out) < MaxTerms
    /\ Euclid_next(e_dom, e_gen).yielded # << >>
    /\ e_out' = Append(e_out, Euclid_next(e_dom, e_gen).yielded[1])
    /\ e_gen' = Euclid_next(e_dom, e_gen).gen
    /\ UNCHANGED <<e_dom, e_in, e_pc, caseVars, labVars, engineVars, auxVars>>

\* the denominator is vacuum: break, the generator is exhausted
EuclidStop ==
    /\ e_pc = "run"
    /\ Euclid_next(e_dom, e_gen).yielded = << >>
    /\ e_pc' = "done"
    /\ UNCHANGED <<e_dom, e_in, e_gen, e_out, caseVars, labVars, engineVars, auxVars>>

NextEuclid == EuclidYield \/ EuclidStop

SpecEuclid == InitEuclid /\ [][NextEuclid]_vars

\* ------------------------------------------------------------------------
\* stream.py: a Stream over a Euclid generator exercised call by call, as
\* test_rational.py builds it: Stream(Euclid(num, den))
\* ------------------------------------------------------------------------
InitStream ==
    /\ s_dom \in Modes
    /\ s_in \in EuclidInputs(s_dom)
    /\ s_stream = make_cf(s_dom, s_in)
    /\ s_got = << >>
    /\ s_last = [kind |-> "none"]
    /\ s_pc = "live"
    /\ EngineIdle
    /\ LabIdle
    /\ EuclidIdle
    /\ GcfIdle
    /\ DivIdle

\* stream.head is read
StreamHead ==
    /\ s_pc = "live"
    /\ s_last' = [kind |-> "head", val |-> Stream_head(s_stream)]
    /\ UNCHANGED <<s_dom, s_in, s_stream, s_got, s_pc, caseVars, labVars, engineVars, euclidVars, gcfVars, divVars>>

\* stream.consume() returns a value
StreamConsume ==
    /\ s_pc = "live"
    /\ ~consume(s_dom, s_stream).raised
    /\ s_last' = [kind |-> "value", val |-> consume(s_dom, s_stream).val]
    /\ s_got' = s_got \o consume(s_dom, s_stream).val
    /\ s_stream' = consume(s_dom, s_stream).stream
    /\ UNCHANGED <<s_dom, s_in, s_pc, caseVars, labVars, engineVars, euclidVars, gcfVars, divVars>>

\* stream.consume() raises StopIteration
StreamConsumeRaises ==
    /\ s_pc = "live"
    /\ consume(s_dom, s_stream).raised
    /\ s_last' = [kind |-> "StopIteration", val |-> consume(s_dom, s_stream).val]
    /\ s_stream' = consume(s_dom, s_stream).stream
    /\ UNCHANGED <<s_dom, s_in, s_got, s_pc, caseVars, labVars, engineVars, euclidVars, gcfVars, divVars>>

NextStream == StreamHead \/ StreamConsume \/ StreamConsumeRaises

SpecStream == InitStream /\ [][NextStream]_vars

\* ------------------------------------------------------------------------
\* transcendental.py: gcf_to_scf, one iteration of its loop per action, on
\* finite sources and on the e and ln 2 sources of test_transcendental.py
\* ------------------------------------------------------------------------
\* test_transcendental.py: the prefixes the test demands
ExpectedE == <<2, 1, 2, 1, 1, 4, 1, 1>>
ExpectedLn2 == <<0, 1, 2, 3, 1>>

GcfPairs == (0..MaxEntry) \X (0..MaxEntry)
GcfLists == UNION {[1..n -> GcfPairs] : n \in 0..MaxPairs}
GcfSources ==
    {[kind |-> "list", items |-> l] : l \in GcfLists}
        \cup {[kind |-> "e", items |-> << >>], [kind |-> "ln", items |-> << >>]}

\* the number of terms the consumer asks an endless source for
Demand(src) ==
    CASE src.kind = "e" -> Len(ExpectedE)
      [] src.kind = "ln" -> Len(ExpectedLn2)
      [] src.kind = "list" -> -1

Demanded == g_src.kind = "list" \/ Len(g_out) < Demand(g_src)

InitGcf ==
    /\ g_src \in GcfSources
    /\ g_pos = 0
    /\ g_state = GCFState
    /\ g_active = TRUE
    /\ g_out = << >>
    /\ g_curr = [curr_num |-> 0, curr_den |-> 0]
    /\ g_pc = "loop"
    /\ EngineIdle
    /\ LabIdle
    /\ EuclidIdle
    /\ StreamIdle
    /\ DivIdle

\* probe returns k: yield k, state.emit(k), continue
GcfEmit ==
    /\ g_pc = "loop" /\ Demanded
    /\ GCF_probe(g_state).kind = "value"
    /\ g_out' = yield(g_out, GCF_probe(g_state).val)
    /\ g_state' = GCF_emit(g_state, GCF_probe(g_state).val)
    /\ UNCHANGED <<g_src, g_pos, g_active, g_curr, g_pc, caseVars, labVars, engineVars, euclidVars, streamVars, divVars>>

\* probe returns None and the source yields a pair: state.ingest(a, b)
GcfIngest ==
    /\ g_pc = "loop" /\ Demanded
    /\ GCF_probe(g_state).kind = "None"
    /\ g_active
    /\ gcf_next(g_src, g_pos) # << >>
    /\ LET ab == gcf_next(g_src, g_pos)[1]
       IN g_state' = GCF_ingest(g_state, ab[1], ab[2])
    /\ g_pos' = g_pos + 1
    /\ UNCHANGED <<g_src, g_active, g_out, g_curr, g_pc, caseVars, labVars, engineVars, euclidVars, streamVars, divVars>>

\* probe returns None and the source raises StopIteration: stream_active
\* becomes False and the same iteration enters the drain loop on A/C
GcfExhaust ==
    /\ g_pc = "loop" /\ Demanded
    /\ GCF_probe(g_state).kind = "None"
    /\ g_active
    /\ gcf_next(g_src, g_pos) = << >>
    /\ g_active' = FALSE
    /\ g_curr' = [curr_num |-> g_state.A, curr_den |-> g_state.C]
    /\ g_pc' = "drain"
    /\ UNCHANGED <<g_src, g_pos, g_state, g_out, caseVars, labVars, engineVars, euclidVars, streamVars, divVars>>

\* drain loop body: q, r = curr_num / curr_den; yield q
GcfDrainStep ==
    /\ g_pc = "drain"
    /\ g_curr.curr_den # 0
    /\ LET qr == FastInteger_truediv(g_curr.curr_num, g_curr.curr_den)
       IN /\ g_out' = yield(g_out, qr[1])
          /\ g_curr' = [curr_num |-> g_curr.curr_den, curr_den |-> qr[2]]
    /\ UNCHANGED <<g_src, g_pos, g_state, g_active, g_pc, caseVars, labVars, engineVars, euclidVars, streamVars, divVars>>

\* drain loop exit: break, the generator returns
GcfDrainEnd ==
    /\ g_pc = "drain"
    /\ g_curr.curr_den = 0
    /\ g_pc' = "done"
    /\ UNCHANGED <<g_src, g_pos, g_state, g_active, g_out, g_curr, caseVars, labVars, engineVars, euclidVars, streamVars, divVars>>

NextGcf == GcfEmit \/ GcfIngest \/ GcfExhaust \/ GcfDrainStep \/ GcfDrainEnd

SpecGcf == InitGcf /\ [][NextGcf]_vars

\* ------------------------------------------------------------------------
\* A single division a / b in each backend: unary (smart_div), FastInteger,
\* GaussianInteger and Polynomial
\* ------------------------------------------------------------------------
DivDomains == {"physics", "science", "complex", "polynomial"}

\* test_unary.py div_cases use 7 and 2 of both signs
DivisionCases == {-7, 7}
IntValues == (-MaxNum..MaxNum) \cup DivisionCases

\* S(0) is the empty NegativeInteger, a second vacuum value of unary matter
UnaryValues == {Matter("physics", n) : n \in IntValues} \cup {NegativeInteger(0)}

PolyLists == UNION {[1..n -> (-MaxPolyCoef..MaxPolyCoef)] : n \in 0..MaxPolyLen}
PolyValues == {Polynomial(l) : l \in PolyLists}

DivValues(dom) ==
    CASE dom = "physics" -> UnaryValues
      [] dom = "science" -> IntValues
      [] dom = "complex" -> {GaussianInteger(z[1], z[2]) : z \in GaussBox}
      [] dom = "polynomial" -> PolyValues

InitDiv ==
    /\ d_dom \in DivDomains
    /\ d_a \in DivValues(d_dom)
    /\ d_b \in DivValues(d_dom)
    /\ d_res = [kind |-> "none"]
    /\ d_pc = "ready"
    /\ EngineIdle
    /\ LabIdle
    /\ EuclidIdle
    /\ StreamIdle
    /\ GcfIdle

\* a / b returns (quotient, remainder)
DivReturn ==
    /\ d_pc = "ready"
    /\ divide(d_dom, d_a, d_b).kind = "value"
    /\ d_res' = divide(d_dom, d_a, d_b)
    /\ d_pc' = "returned"
    /\ UNCHANGED <<d_dom, d_a, d_b, caseVars, labVars, engineVars, euclidVars, streamVars, gcfVars>>

\* a / b raises
DivRaise ==
    /\ d_pc = "ready"
    /\ divide(d_dom, d_a, d_b).kind # "value"
    /\ d_res' = divide(d_dom, d_a, d_b)
    /\ d_pc' = "raised"
    /\ UNCHANGED <<d_dom, d_a, d_b, caseVars, labVars, engineVars, euclidVars, streamVars, gcfVars>>

NextDiv == DivReturn \/ DivRaise

SpecDiv == InitDiv /\ [][NextDiv]_vars

\* ------------------------------------------------------------------------
\* gosper.py: gosper_engine answering a consumer's demands, on FastInteger,
\* with operands that are rationals (Stream(Euclid(num, den))) or the
\* endless expansion of e (Stream(gcf_to_scf(e_generator(1))))
\* ------------------------------------------------------------------------
NonNegRationals == (0..MaxNum) \X (1..MaxDen)

Operands ==
    {[kind |-> "Euclid", v |-> v] : v \in NonNegRationals}
        \cup {[kind |-> "e", v |-> <<0, 1>>]}

operand(m, o) ==
    IF o.kind = "Euclid" THEN make_cf(m, o.v)
    ELSE Stream(m, gcf_to_scf([kind |-> "e", items |-> << >>]))

InitResponse ==
    /\ op \in Ops
    /\ \E ox \in Operands, oy \in Operands :
          /\ xin = ox.v
          /\ yin = oy.v
          /\ x_stream = [m \in Modes |-> IF m = "science" THEN operand(m, ox)
                                                         ELSE make_cf(m, <<0, 0>>)]
          /\ y_stream = [m \in Modes |-> IF m = "science" THEN operand(m, oy)
                                                         ELSE make_cf(m, <<0, 0>>)]
    /\ turn = "science"
    /\ state = [m \in Modes |-> seed(m, op)]
    /\ x_alive = [m \in Modes |-> m = "science"]
    /\ y_alive = [m \in Modes |-> m = "science"]
    /\ out = [m \in Modes |-> << >>]
    /\ pc = [m \in Modes |-> IF m = "science" THEN "loop" ELSE "idle"]
    /\ curr = [m \in Modes |-> [curr_num |-> Matter(m, 0), curr_den |-> Matter(m, 0)]]
    /\ EuclidIdle
    /\ AuxIdle
    /\ LabIdle

\* the consumer asks for MaxDemand terms and then abandons the engine
Requested == Len(out["science"]) < MaxDemand

ResponseEmit == Requested /\ EmitStep("science")

\* the run is followed for MaxPull terms of each operand
ResponseIngestX ==
    /\ Requested
    /\ x_stream["science"].pos < MaxPull
    /\ IngestXStep("science")

ResponseIngestY ==
    /\ Requested
    /\ y_stream["science"].pos < MaxPull
    /\ IngestYStep("science")

ResponseHalt == Requested /\ HaltStep("science")
ResponseDrainStep == Requested /\ DrainStep("science")
ResponseDrainEnd == Requested /\ DrainEnd("science")

NextResponse ==
    \/ ResponseEmit
    \/ ResponseIngestX
    \/ ResponseIngestY
    \/ ResponseHalt
    \/ ResponseDrainStep
    \/ ResponseDrainEnd

\* the engine is a sequential loop: while a demand is pending its next
\* iteration is taken
SpecResponse == InitResponse /\ [][NextResponse]_vars /\ WF_vars(NextResponse)

\* ========================================================================
\* Properties
\* ========================================================================
Terminal(m) == pc[m] \in {"done", "failed"}

\* The exact fold of a non-empty term sequence from position i on, as a
\* fraction <<n, d>>: the last term, then a_i + 1/previous.
RECURSIVE FoldFrom(_, _)
FoldFrom(s, i) ==
    IF i = Len(s) THEN <<s[i], 1>>
    ELSE LET r == FoldFrom(s, i + 1) IN <<(s[i] * r[1]) + r[2], r[1]>>

\* every 1/previous of the fold is defined and the fold is the fraction n/d
FoldEquals(s, n, d) ==
    /\ Len(s) >= 1
    /\ \A i \in 2..Len(s) : FoldFrom(s, i)[1] # 0
    /\ FoldFrom(s, 1)[1] * d = n * FoldFrom(s, 1)[2]

\* the exact rational result of the case, <<numerator, denominator>>
ExactResult ==
    CASE op = "add" -> <<(xin[1] * yin[2]) + (yin[1] * xin[2]), xin[2] * yin[2]>>
      [] op = "sub" -> <<(xin[1] * yin[2]) - (yin[1] * xin[2]), xin[2] * yin[2]>>
      [] op = "mul" -> <<xin[1] * yin[1], xin[2] * yin[2]>>
      [] op = "div" -> <<xin[1] * yin[2], xin[2] * yin[1]>>

ResultDefined == ExactResult[2] # 0

\* C1: for every operator and all rational operands with a defined result,
\* each run of gosper_engine ends normally with a finite output whose exact
\* fold equals the exact result x op y.
C1_FoldIsExactResult ==
    \A m \in Modes :
        (Terminal(m) /\ ResultDefined)
            => /\ pc[m] = "done"
               /\ FoldEquals(IntSeq(m, out[m]), ExactResult[1], ExactResult[2])

\* the same statement for the FastInteger run alone
FoldIsExactOnScience ==
    (Terminal("science") /\ ResultDefined)
        => /\ pc["science"] = "done"
           /\ FoldEquals(IntSeq("science", out["science"]), ExactResult[1], ExactResult[2])

\* C1's case: the unary run of (1/2) - (1/3) has ended
C1_Witness ==
    /\ op = "sub" /\ xin = <<1, 2>> /\ yin = <<1, 3>>
    /\ Terminal("physics")

\* the complete term sequence Euclid yields from a generator state
RECURSIVE EuclidTerms(_, _)
EuclidTerms(m, gen) ==
    LET r == Euclid_next(m, gen)
    IN IF r.yielded = << >> THEN << >> ELSE <<r.yielded[1]>> \o EuclidTerms(m, r.gen)

\* the terms Euclid yields for the exact result of the case
ResultTerms == IntSeq("science", EuclidTerms("science", Euclid(ExactResult[1], ExactResult[2])))

NonNegOperands == xin[1] >= 0 /\ yin[1] >= 0
XBelowOne == xin[1] < xin[2]
XAtLeastY == xin[1] * yin[2] >= yin[1] * xin[2]

TailTerms(m, s) ==
    IF Stream_head(s) = << >> THEN << >>
    ELSE IntSeq(m, <<Stream_head(s)[1]>> \o EuclidTerms(m, s.gen))

\* the exact value of a tail as a fraction <<n, d>>; an exhausted tail is
\* the point at infinity <<1, 0>>
TailValue(m, s) == IF TailTerms(m, s) = << >> THEN <<1, 0>> ELSE FoldFrom(TailTerms(m, s), 1)

\* the value (a*x*y + b*x + c*y + d) / (e*x*y + f*x + g*y + h) the current
\* state of run m takes at the true tails of x and y, as <<n, d>>
TrueValue(m) ==
    LET X == TailValue(m, x_stream[m])
        Y == TailValue(m, y_stream[m])
        c == [k \in DOMAIN state[m] |-> safe_int_val(m, state[m][k])]
    IN << (c.a * X[1] * Y[1]) + (c.b * X[1] * Y[2]) + (c.c * X[2] * Y[1]) + (c.d * X[2] * Y[2]),
          (c.e * X[1] * Y[1]) + (c.f * X[1] * Y[2]) + (c.g * X[2] * Y[1]) + (c.h * X[2] * Y[2]) >>

\* k is the integer part of n/d
FloorIs(k, n, d) ==
    /\ d # 0
    /\ IF d > 0 THEN (k * d <= n /\ n < (k + 1) * d)
                ELSE (k * d >= n /\ n > (k + 1) * d)

\* run m emits a digit by consensus in this step
Emits(m) == pc[m] = "loop" /\ Len(out'[m]) = Len(out[m]) + 1
EmittedDigit(m) == safe_int_val(m, out'[m][Len(out'[m])])

\* C3 as stated, on operands that are Euclid expansions of non-negative
\* rationals with a defined result (no division by zero): every digit emitted by consensus is the integer part of the
\* exact value the state takes at the true tails of x and y, in every
\* reachable state, also when no term of y has been ingested yet.
C3_EmittedDigitIsFloor ==
    [][\A m \in Modes :
          (Emits(m) /\ NonNegOperands /\ ResultDefined) => FloorIs(EmittedDigit(m), TrueValue(m)[1], TrueValue(m)[2])]_vars

\* C3 amended: for operands that are Euclid expansions of non-negative
\* rationals, every digit emitted by consensus once at least one term of y
\* has been ingested is the integer part of the exact value the state
\* takes at the true tails of x and y.
C3_EmittedDigitIsFloorAmended ==
    [][\A m \in Modes :
          (Emits(m) /\ NonNegOperands /\ y_stream[m].pos >= 1)
              => FloorIs(EmittedDigit(m), TrueValue(m)[1], TrueValue(m)[2])]_vars

\* C3's case: a run has emitted a digit by consensus after ingesting terms
\* of both operands, and has consensus on a further digit
C3_Witness ==
    \E m \in Modes :
        /\ NonNegOperands /\ pc[m] = "loop"
        /\ x_stream[m].pos >= 1 /\ y_stream[m].pos >= 1
        /\ Len(out[m]) >= 1
        /\ ~raises(cands(m)) /\ consensus(m, cands(m))

\* the terms Euclid yields for an operand on backend m, as integers
OperandTerms(m, v) == IntSeq(m, EuclidTerms(m, Euclid(Matter(m, v[1]), Matter(m, v[2]))))

\* C4: identity laws.  For x a non-negative rational, on both backends,
\* x + [0] and x * [1] end with exactly the term sequence of x, and
\* x * [0] ends with exactly [0].
C4_IdentityLaws ==
    \A m \in Modes :
        (Terminal(m) /\ xin[1] >= 0)
            => /\ (op = "add" /\ yin = <<0, 1>>)
                    => (pc[m] = "done" /\ IntSeq(m, out[m]) = OperandTerms(m, xin))
               /\ (op = "mul" /\ yin = <<1, 1>>)
                    => (pc[m] = "done" /\ IntSeq(m, out[m]) = OperandTerms(m, xin))
               /\ (op = "mul" /\ yin = <<0, 1>>)
                    => (pc[m] = "done" /\ IntSeq(m, out[m]) = <<0>>)

\* C4's case: (2/3) * [1] has ended on both backends with [0, 1, 2]
C4_Witness ==
    /\ op = "mul" /\ xin = <<2, 3>> /\ yin = <<1, 1>>
    /\ \A m \in Modes : pc[m] = "done" /\ IntSeq(m, out[m]) = <<0, 1, 2>>

\* C5: inverse law for subtraction.  For every rational x, x - x ends
\* normally with exactly [0], on both backends.
C5_SubInverse ==
    \A m \in Modes :
        (Terminal(m) /\ op = "sub" /\ xin = yin)
            => (pc[m] = "done" /\ IntSeq(m, out[m]) = <<0>>)

\* C5's case: the unary run of (1/3) - (1/3) has ended
C5_Witness ==
    /\ op = "sub" /\ xin = <<1, 3>> /\ yin = <<1, 3>>
    /\ Terminal("physics")

\* C6 as stated, on positive rationals: x / x ends normally with exactly
\* [0, 1], never [1].
C6_DivInverse ==
    \A m \in Modes :
        (Terminal(m) /\ op = "div" /\ xin = yin /\ xin[1] > 0)
            => (pc[m] = "done" /\ IntSeq(m, out[m]) = <<0, 1>>)

\* C6 amended: for a positive rational x = p/q, on both backends, x / x
\* ends normally with exactly [0, 1] when p < q and with exactly [1] when
\* p >= q.
C6_DivInverseAmended ==
    \A m \in Modes :
        (Terminal(m) /\ op = "div" /\ xin = yin /\ xin[1] > 0)
            => /\ pc[m] = "done"
               /\ IntSeq(m, out[m]) = IF xin[1] < xin[2] THEN <<0, 1>> ELSE <<1>>

\* C6's case: (3/2) / (3/2) has ended on both backends
C6_Witness ==
    /\ op = "div" /\ xin = <<3, 2>> /\ yin = <<3, 2>>
    /\ \A m \in Modes : pc[m] = "done"

\* the sequence s is the sequence t or t with one term appended
GrowsByOne(t, s) ==
    \/ s = t
    \/ (Len(s) = Len(t) + 1 /\ SubSeq(s, 1, Len(t)) = t)

IntegerDomains == {"physics", "science"}

\* C8: for every integer p and non-zero integer q, on both integer
\* backends, Euclid(p, q) stops after finitely many quotients and their
\* fold equals p/q exactly; Euclid(10,7) = [1,2,3], Euclid(415,93) =
\* [4,2,6,7], Euclid(1,5) = [0,5], Euclid(7,1) = [7].
C8_EuclidFoldExact ==
    (e_pc # "idle" /\ e_dom \in IntegerDomains /\ e_in[2] # 0)
        => /\ Len(e_out) < MaxTerms
           /\ (e_pc = "done")
                => /\ FoldEquals(IntSeq(e_dom, e_out), e_in[1], e_in[2])
                   /\ (e_in = <<10, 7>>) => IntSeq(e_dom, e_out) = <<1, 2, 3>>
                   /\ (e_in = <<415, 93>>) => IntSeq(e_dom, e_out) = <<4, 2, 6, 7>>
                   /\ (e_in = <<1, 5>>) => IntSeq(e_dom, e_out) = <<0, 5>>
                   /\ (e_in = <<7, 1>>) => IntSeq(e_dom, e_out) = <<7>>

\* C8's case: Euclid(415, 93) over unary matter has stopped with [4,2,6,7]
C8_Witness ==
    /\ e_pc = "done" /\ e_dom = "physics" /\ e_in = <<415, 93>>
    /\ IntSeq(e_dom, e_out) = <<4, 2, 6, 7>>

\* the measure Euclid's denominator is to shrink in: the absolute value
\* of an integer, the squared norm of a Gaussian integer
Measure(dom, v) == IF dom = "complex" THEN norm_sq(v) ELSE Abs(safe_int_val(dom, v))

\* C9: on the integers and on the Gaussian integers, every iteration of
\* Euclid's loop strictly decreases the measure of the denominator.
C9_MeasureDecreases ==
    [][(e_out' # e_out)
          => Measure(e_dom, e_gen'.curr_den) < Measure(e_dom, e_gen.curr_den)]_vars

\* the same statement on the two integer backends alone
MeasureDecreasesOnIntegers ==
    [][(e_out' # e_out /\ e_dom \in IntegerDomains)
          => Measure(e_dom, e_gen'.curr_den) < Measure(e_dom, e_gen.curr_den)]_vars

\* C9's case: a Gaussian run has yielded as many quotients as the model
\* follows and its denominator is still not vacuum
C9_Witness ==
    /\ e_dom = "complex" /\ e_pc = "run" /\ Len(e_out) = MaxTerms
    /\ ~is_vacuum(e_dom, e_gen.curr_den)

\* t is an initial part of s
IsPrefix(t, s) == Len(t) <= Len(s) /\ SubSeq(s, 1, Len(t)) = t

\* C10: cross-backend equivalence.  For the same operator and operands the
\* outputs of the unary run and of the FastInteger run (as integers) agree
\* on every digit both have produced so far, and once both runs have ended
\* they have ended the same way with the same output: neither fails where
\* the other succeeds.
C10_CrossBackendEquivalence ==
    LET P == IntSeq("physics", out["physics"])
        S == IntSeq("science", out["science"])
    IN /\ IsPrefix(P, S) \/ IsPrefix(S, P)
       /\ (Terminal("physics") /\ Terminal("science"))
            => (pc["physics"] = pc["science"] /\ P = S)

\* C10's case: on (1/2) - (1/3) the unary run has failed and the
\* FastInteger run has ended normally with [0, 6]
C10_Witness ==
    /\ op = "sub" /\ xin = <<1, 2>> /\ yin = <<1, 3>>
    /\ pc["physics"] = "failed"
    /\ pc["science"] = "done" /\ IntSeq("science", out["science"]) = <<0, 6>>

\* the producer's whole sequence: every term the Euclid generator that the
\* Stream was built on yields
ProducerTerms == EuclidTerms(s_dom, Euclid(Matter(s_dom, s_in[1]), Matter(s_dom, s_in[2])))

\* C11: consume returns the value head showed immediately before the call,
\* and the values returned so far are the producer's sequence in order,
\* none skipped or repeated, up to the whole sequence once the producer is
\* exhausted.
C11_ConsumeIsProducerSequence ==
    /\ [](s_pc = "live" =>
            /\ Len(s_got) <= Len(ProducerTerms)
            /\ s_got = SubSeq(ProducerTerms, 1, Len(s_got))
            /\ (Stream_head(s_stream) = << >>) => s_got = ProducerTerms)
    /\ [][(s_pc = "live" /\ s_last'.kind = "value")
            => (s_last'.val = Stream_head(s_stream) /\ s_got' = s_got \o Stream_head(s_stream))]_vars

\* C11's case: every value of a producer of at least three terms has been
\* consumed
C11_Witness ==
    /\ s_pc = "live" /\ Len(ProducerTerms) >= 3
    /\ s_got = ProducerTerms /\ s_last.kind = "value"

\* C12: a head read returns the buffered value and changes nothing of the
\* Stream (no pull, same buffer, same position), so repeated reads agree;
\* head is the sentinel exactly when the producer has run out.
C12_HeadIsPure ==
    /\ [](s_pc = "live" =>
            ((Stream_head(s_stream) = << >>) <=> (s_stream.pos = Len(ProducerTerms))))
    /\ [][(s_pc = "live" /\ s_last'.kind = "head")
            => (s_last'.val = s_stream.head /\ s_stream' = s_stream /\ s_got' = s_got)]_vars

\* C12's case: head has been read on a Stream that holds a value after a
\* consume
C12_Witness ==
    /\ s_pc = "live" /\ s_last.kind = "head"
    /\ s_stream.pos >= 1 /\ s_last.val # << >>

\* C13: consume on an exhausted Stream raises StopIteration, returns no
\* value, does not pull from the producer and leaves the Stream as it was;
\* once head is the sentinel it stays the sentinel.
C13_ExhaustionIsPermanent ==
    /\ [][(s_pc = "live" /\ Stream_head(s_stream) = << >>)
            => Stream_head(s_stream') = << >>]_vars
    /\ [][(s_pc = "live" /\ Stream_head(s_stream) = << >> /\ s_last'.kind \in {"value", "StopIteration"})
            => (s_last'.kind = "StopIteration" /\ s_last'.val = << >>
                /\ s_stream' = s_stream /\ s_got' = s_got)]_vars

\* C13's case: consume has raised on a Stream whose values were all consumed
C13_Witness ==
    /\ s_pc = "live" /\ s_last.kind = "StopIteration"
    /\ Len(s_got) >= 2 /\ Stream_head(s_stream) = << >>

\* C14: the Stream is created charged with a single-slot lookahead: the
\* producer has been asked exactly once more than consume has succeeded,
\* and head holds the next value of the producer, or the sentinel when
\* there is none.
C14_SingleSlotLookahead ==
    (s_pc = "live")
        => /\ s_stream.pulls = s_stream.pos + 1
           /\ s_stream.pos = Len(s_got)
           /\ Stream_head(s_stream) =
                IF s_stream.pos < Len(ProducerTerms)
                THEN <<ProducerTerms[s_stream.pos + 1]>> ELSE << >>

\* C14's case: after two consumes the producer has been asked three times
\* and the register holds a value
C14_Witness ==
    /\ s_pc = "live" /\ s_stream.pos = 2 /\ s_stream.pulls = 3
    /\ Stream_head(s_stream) # << >>

\* the value b_k + a_k / (b_(k+1) + a_(k+1) / (... + a_(n-1) / b_n)) of a
\* finite source from its k-th pair on, as a fraction <<n, d>>; <<0, 0>>
\* when a denominator of the nest is zero
RECURSIVE GcfValueFrom(_, _)
GcfValueFrom(items, k) ==
    IF k = Len(items) THEN <<items[k][2], 1>>
    ELSE LET w == GcfValueFrom(items, k + 1)
         IN IF w[1] = 0 THEN <<0, 0>>
            ELSE <<(items[k][2] * w[1]) + (items[k][1] * w[2]), w[1]>>

GcfValue == GcfValueFrom(g_src.items, 1)
GcfValueDefined == g_src.kind = "list" /\ Len(g_src.items) >= 1 /\ GcfValue[2] # 0

\* C16: on every finite source of non-negative pairs whose value is
\* defined gcf_to_scf drains A/C once the source is exhausted, halts, and
\* the exact fold of its output is that value; on the e source the first
\* eight terms are [2,1,2,1,1,4,1,1] and on the ln 2 source the first five
\* are [0,1,2,3,1].
C16_TransducerIsExact ==
    /\ (g_pc = "done" /\ GcfValueDefined)
            => (~g_active /\ FoldEquals(g_out, GcfValue[1], GcfValue[2]))
    /\ (g_src.kind = "list" /\ ~g_active) => g_pc \in {"drain", "done"}
    /\ (g_src.kind = "e") => g_out = SubSeq(ExpectedE, 1, Len(g_out))
    /\ (g_src.kind = "ln") => g_out = SubSeq(ExpectedLn2, 1, Len(g_out))

\* C16's case: the run on the finite source (1,0),(1,2), of value
\* 0 + 1/2, has exhausted the source, drained and halted with [0, 2]
C16_Witness ==
    /\ g_pc = "done" /\ ~g_active
    /\ g_src = [kind |-> "list", items |-> << <<1, 0>>, <<1, 2>> >>]
    /\ g_out = <<0, 2>>

IntOf(dom, v) == safe_int_val(dom, v)
Sign(n) == IF n > 0 THEN 1 ELSE IF n < 0 THEN -1 ELSE 0

\* C17: on the unary backend and on FastInteger, for every signed a and
\* non-zero b, a / b returns (q, r) with a = b*q + r (also when rebuilt
\* with the backend's own * and +), |r| < |b|, q truncated toward zero and
\* r zero or of the sign of a; -7/2 = (-3,-1), 7/-2 = (-3,1), -7/-2 = (3,-1).
C17_IntegerDivision ==
    (d_pc # "ready" /\ d_dom \in IntegerDomains /\ ~vacuum(d_dom, d_b))
        => /\ d_pc = "returned"
           /\ LET a == IntOf(d_dom, d_a)
                  b == IntOf(d_dom, d_b)
                  q == IntOf(d_dom, d_res.q)
                  r == IntOf(d_dom, d_res.r)
              IN /\ a = (b * q) + r
                 /\ IntOf(d_dom, add(d_dom, mul(d_dom, d_b, d_res.q), d_res.r)) = a
                 /\ Abs(r) < Abs(b)
                 /\ Abs(q) = Abs(a) \div Abs(b)
                 /\ (q # 0) => Sign(q) = Sign(a) * Sign(b)
                 /\ (r # 0) => Sign(r) = Sign(a)
                 /\ (a = -7 /\ b = 2) => (q = -3 /\ r = -1)
                 /\ (a = 7 /\ b = -2) => (q = -3 /\ r = 1)
                 /\ (a = -7 /\ b = -2) => (q = 3 /\ r = -1)

\* C17's case: S(7) / U(2) has returned on the unary backend
C17_Witness ==
    /\ d_pc = "returned" /\ d_dom = "physics"
    /\ d_a = NegativeInteger(7) /\ d_b = NonNegativeInteger(2)
    /\ IntOf(d_dom, d_res.q) = -3 /\ IntOf(d_dom, d_res.r) = -1

\* C18: for Gaussian integers a and non-vacuum b, a / b returns (q, r)
\* with a = b*q + r and the squared norm of r strictly below that of b.
C18_GaussianDivision ==
    (d_pc # "ready" /\ d_dom = "complex" /\ ~vacuum(d_dom, d_b))
        => /\ d_pc = "returned"
           /\ d_a = GaussianInteger(
                      (d_b.real * d_res.q.real) - (d_b.imag * d_res.q.imag) + d_res.r.real,
                      (d_b.real * d_res.q.imag) + (d_b.imag * d_res.q.real) + d_res.r.imag)
           /\ norm_sq(d_res.r) < norm_sq(d_b)

\* the reconstruction half of the contract alone
GaussianReconstruction ==
    (d_pc # "ready" /\ d_dom = "complex" /\ ~vacuum(d_dom, d_b))
        => /\ d_pc = "returned"
           /\ d_a = GaussianInteger(
                      (d_b.real * d_res.q.real) - (d_b.imag * d_res.q.imag) + d_res.r.real,
                      (d_b.real * d_res.q.imag) + (d_b.imag * d_res.q.real) + d_res.r.imag)

\* C18's case: (-2-i) / (-1-2i) has returned (1+i, -3+2i)
C18_Witness ==
    /\ d_pc = "returned" /\ d_dom = "complex"
    /\ d_a = GaussianInteger(-2, -1) /\ d_b = GaussianInteger(-1, -2)
    /\ d_res.q = GaussianInteger(1, 1) /\ d_res.r = GaussianInteger(-3, 2)

\* C19: in every backend a / b with b vacuum raises ZeroDivisionError and
\* returns no pair, whatever the dividend, a vacuum one included.
C19_DivisionByVacuumRaises ==
    (d_pc # "ready" /\ vacuum(d_dom, d_b))
        => (d_pc = "raised" /\ d_res = ZeroDivisionError)

\* the same statement for Polynomial dividends that have a coefficient
DivisionByVacuumRaisesOnCoefficients ==
    (d_pc # "ready" /\ vacuum(d_dom, d_b) /\ ~(d_dom = "polynomial" /\ d_a = << >>))
        => (d_pc = "raised" /\ d_res = ZeroDivisionError)

\* C19's case: the Polynomial without coefficients (the vacuum that
\* Polynomial.__mul__ returns) has been divided by the zero Polynomial and
\* the call has raised IndexError
C19_Witness ==
    /\ d_pc = "raised" /\ d_dom = "polynomial"
    /\ d_a = << >> /\ d_b = <<0>> /\ d_res = IndexError

XEndless == "state" \in DOMAIN x_stream["science"].gen
YEndless == "state" \in DOMAIN y_stream["science"].gen
Pending(n) == pc["science"] \in {"loop", "drain"} /\ Len(out["science"]) = n
Answered(n) == Len(out["science"]) > n \/ pc["science"] \in {"done", "failed"}

BoundedResponseOnFiniteStreams ==
    \A n \in 0..(MaxDemand - 1) : (Pending(n) /\ ~XEndless /\ ~YEndless) ~> Answered(n)

\* the same statement for a finite x and an endless y, the product or
\* quotient with x = 0 set aside
BoundedResponseOnFiniteX ==
    \A n \in 0..(MaxDemand - 1) :
        (Pending(n) /\ ~XEndless /\ ~(op \in {"mul", "div"} /\ xin[1] = 0)) ~> Answered(n)

\* while x is endless the engine takes its input from x alone, and no
\* demand is answered
EndlessXStarves ==
    XEndless => /\ pc["science"] = "loop"
                /\ out["science"] = << >>
                /\ y_stream["science"].pos = 0
                /\ x_alive["science"]

RECURSIVE DigitsThen(_, _, _)
DigitsThen(ds, z, i) ==
    IF i > Len(ds) THEN z
    ELSE LET r == DigitsThen(ds, z, i + 1) IN <<(ds[i] * r[1]) + r[2], r[1]>>

\* the value z of run m: the bihomographic value at the true tails while
\* the loop runs, the remaining ratio once the drain loop has taken over
StateValue(m) ==
    IF pc[m] \in {"drain", "done"}
    THEN <<safe_int_val(m, curr[m].curr_num), safe_int_val(m, curr[m].curr_den)>>
    ELSE TrueValue(m)

SameValue(u, v) == u # <<0, 0>> /\ v # <<0, 0>> /\ u[1] * v[2] = v[1] * u[2]

\* C21: in every reachable state of every run with a defined result, the
\* exact result of the operation is [d1; d2, ..., dn, z], with d1..dn the
\* digits emitted so far and z the value of the state at the exact tails
\* of the operands (ingest_x, ingest_y and emit preserve it).
C21_ValuePreserved ==
    \A m \in Modes :
        (pc[m] # "idle" /\ ResultDefined)
            => SameValue(DigitsThen(IntSeq(m, out[m]), StateValue(m), 1), ExactResult)

\* C21's case: the FastInteger run of (2/3) / (3/2) has ingested terms of
\* both operands and emitted digits, and is still in the loop
C21_Witness ==
    /\ op = "div" /\ xin = <<2, 3>> /\ yin = <<3, 2>>
    /\ pc["science"] = "loop"
    /\ x_stream["science"].pos >= 1 /\ y_stream["science"].pos >= 1
    /\ Len(out["science"]) >= 2

\* the ratios the liveness flags of run m require, as <<numerator,
\* denominator>> pairs of integers: a/e always, (a+b+c+d)/(e+f+g+h) when
\* both inputs are live, (a+b)/(e+f) when y is live, (a+c)/(e+g) when x is
RequiredRatios(m) ==
    LET c == [k \in DOMAIN state[m] |-> safe_int_val(m, state[m][k])]
    IN << <<c.a, c.e>> >>
       \o (IF x_alive[m] /\ y_alive[m]
           THEN << <<c.a + c.b + c.c + c.d, c.e + c.f + c.g + c.h>> >> ELSE << >>)
       \o (IF y_alive[m] THEN << <<c.a + c.b, c.e + c.f>> >> ELSE << >>)
       \o (IF x_alive[m] THEN << <<c.a + c.c, c.e + c.g>> >> ELSE << >>)

\* every required ratio has integer part k
CommonFloor(m, k) ==
    \A i \in 1..Len(RequiredRatios(m)) : FloorIs(k, RequiredRatios(m)[i][1], RequiredRatios(m)[i][2])

\* every required ratio is defined and all have the same integer part
FloorsAgree(m) ==
    /\ \A i \in 1..Len(RequiredRatios(m)) : RequiredRatios(m)[i][2] # 0
    /\ CommonFloor(m, PyFloorDiv(RequiredRatios(m)[1][1], RequiredRatios(m)[1][2]))

\* run m takes one iteration of the engine's loop in this step
LoopStep(m) == pc[m] = "loop" /\ turn = m /\ (pc'[m] # pc[m] \/ out'[m] # out[m]
                                               \/ state'[m] # state[m])

ConsensusRule(m) ==
    LoopStep(m) => /\ Emits(m) <=> FloorsAgree(m)
                   /\ Emits(m) => CommonFloor(m, EmittedDigit(m))

\* C22: a loop iteration of gosper_engine emits a digit if and only if
\* every candidate the liveness flags require is defined and all have the
\* same integer floor, and the digit is that floor (toward minus infinity).
C22_ConsensusRule ==
    [][\A m \in Modes : ConsensusRule(m)]_vars

\* the same statement for the FastInteger run alone
ConsensusRuleOnScience ==
    [][ConsensusRule("science")]_vars

\* C22's case: the unary run of 0 - (1/3) is in the loop, every required
\* ratio is defined and all have the same floor, and get_floor raises
C22_Witness ==
    /\ op = "sub" /\ xin = <<0, 1>> /\ yin = <<1, 3>>
    /\ pc["physics"] = "loop" /\ turn = "physics"
    /\ FloorsAgree("physics")
    /\ raises(cands("physics"))

ConsumedX(m) == x_stream'[m].pos - x_stream[m].pos
ConsumedY(m) == y_stream'[m].pos - y_stream[m].pos

\* C23: every step of gosper_engine consumes at most one input term in
\* all; a term of y is consumed only in a step that finds x exhausted (its
\* head is None and x is flagged dead), so no term of x is consumed once a
\* term of y has been.
C23_InputOrdering ==
    [][\A m \in Modes :
          /\ ConsumedX(m) \in {0, 1} /\ ConsumedY(m) \in {0, 1}
          /\ ConsumedX(m) + ConsumedY(m) <= 1
          /\ ConsumedY(m) = 1 => (Stream_head(x_stream[m]) = << >> /\ ~x_alive'[m])
          /\ ConsumedX(m) = 1 => y_stream[m].pos = 0]_vars

\* C23's case: the FastInteger run of (2/3) + (3/2) has consumed both
\* terms of x and then a term of y
C23_Witness ==
    /\ op = "add" /\ xin = <<2, 3>> /\ yin = <<3, 2>>
    /\ x_stream["science"].pos = 3 /\ ~x_alive["science"]
    /\ y_stream["science"].pos = 1

\* the integer values of the eight coefficients, in the order a..h
Coeffs(m, s) ==
    <<safe_int_val(m, s.a), safe_int_val(m, s.b), safe_int_val(m, s.c), safe_int_val(m, s.d),
      safe_int_val(m, s.e), safe_int_val(m, s.f), safe_int_val(m, s.g), safe_int_val(m, s.h)>>

EmitFrame(m) ==
    Emits(m) =>
        LET o == Coeffs(m, state[m])
            n == Coeffs(m, state'[m])
            k == EmittedDigit(m)
        IN /\ \A i \in 1..4 : n[i] = o[i + 4] /\ n[i + 4] = o[i] - (k * o[i + 4])
           /\ x_stream'[m] = x_stream[m] /\ y_stream'[m] = y_stream[m]
           /\ x_alive'[m] = x_alive[m] /\ y_alive'[m] = y_alive[m]

IngestFrame(m) ==
    (pc[m] = "loop" /\ (ConsumedX(m) # 0 \/ ConsumedY(m) # 0)) => out'[m] = out[m]

\* C24: an emit step of gosper_engine consumes no input.  It appends the
\* digit k, sets (a,b,c,d) to the old (e,f,g,h) and (e,f,g,h) to the old
\* (a,b,c,d) minus k times the old (e,f,g,h), and leaves both streams
\* (head and position) and both liveness flags as they were; a step that
\* ingests a term appends nothing to the output.
C24_EmitFrame == [][\A m \in Modes : EmitFrame(m) /\ IngestFrame(m)]_vars

\* C24's case: the FastInteger run of (3/2) + (2/3) has emitted its first
\* digit 2 after consuming terms of both inputs
C24_Witness ==
    /\ op = "add" /\ xin = <<3, 2>> /\ yin = <<2, 3>>
    /\ pc["science"] = "loop" /\ IntSeq("science", out["science"]) = <<2>>
    /\ x_stream["science"].pos >= 1 /\ y_stream["science"].pos >= 1

\* the engine under a scheduler that keeps running a run that can step:
\* a generator that is being iterated is resumed until it returns or raises
SpecFair == Init /\ [][Next]_vars /\ WF_vars(Next)

\* a run that has returned: both inputs found dead, the drain loop left
\* with a vacuum denominator
Halted(m) ==
    /\ pc[m] = "done"
    /\ ~x_alive[m] /\ ~y_alive[m]
    /\ is_vacuum(m, curr[m].curr_den)

\* C25: termination of gosper_engine on finite inputs.  For every
\* operator and every pair of rational operands, each run eventually finds
\* both inputs dead, drains a/e until the denominator is vacuum and halts,
\* and from then on stays halted.
C25_Termination == \A m \in Modes : <>[]Halted(m)

\* the same on the FastInteger backend alone
TerminationOnScience == <>[]Halted("science")

\* a halted run emits and consumes nothing more
HaltedStaysHalted ==
    [][\A m \in Modes :
          pc[m] = "done" => /\ pc'[m] = "done" /\ out'[m] = out[m]
                            /\ x_stream'[m] = x_stream[m] /\ y_stream'[m] = y_stream[m]]_vars

\* C25's case: the unary run of (1/2) - (1/3) has ended by raising, with
\* both inputs still flagged alive, while the FastInteger run has halted
C25_Witness ==
    /\ op = "sub" /\ xin = <<1, 2>> /\ yin = <<1, 3>>
    /\ pc["physics"] = "failed" /\ y_alive["physics"]
    /\ Halted("science")

\* ------------------------------------------------------------------------
\* transcendental.py: GCFState.probe as a function of a signed state
\* ------------------------------------------------------------------------
ProbeStates ==
    [A : (-MaxProbe)..MaxProbe, B : (-MaxProbe)..MaxProbe,
     C : (-MaxProbe)..MaxProbe, D : (-MaxProbe)..MaxProbe]

InitProbe ==
    /\ g_src = [kind |-> "list", items |-> << >>]
    /\ g_pos = 0
    /\ g_state \in ProbeStates
    /\ g_active = TRUE
    /\ g_out = << >>
    /\ g_curr = [curr_num |-> 0, curr_den |-> 0]
    /\ g_pc = "probe"
    /\ EngineIdle
    /\ LabIdle
    /\ EuclidIdle
    /\ StreamIdle
    /\ DivIdle

\* probe returns f1: both quotients are defined and equal
ProbeDigit ==
    /\ g_pc = "probe"
    /\ GCF_probe(g_state).kind = "value"
    /\ g_out' = yield(g_out, GCF_probe(g_state).val)
    /\ g_pc' = "returned"
    /\ UNCHANGED <<g_src, g_pos, g_state, g_active, g_curr, caseVars, labVars, engineVars, euclidVars, streamVars, divVars>>

\* probe returns None
ProbeNone ==
    /\ g_pc = "probe"
    /\ GCF_probe(g_state).kind = "None"
    /\ g_pc' = "returned"
    /\ UNCHANGED <<g_src, g_pos, g_state, g_active, g_out, g_curr, caseVars, labVars, engineVars, euclidVars, streamVars, divVars>>

NextProbe == ProbeDigit \/ ProbeNone

SpecProbe == InitProbe /\ [][NextProbe]_vars

\* both ratios of a GCF state are defined and have the same floor
ProbeFloorsAgree(st) ==
    st.C # 0 /\ st.D # 0 /\ PyFloorDiv(st.A, st.C) = PyFloorDiv(st.B, st.D)

ProbeIsFloor(st, res) ==
    /\ res # << >> <=> ProbeFloorsAgree(st)
    /\ res # << >> => res[1] = PyFloorDiv(st.A, st.C)

\* C26: GCFState.probe returns a digit exactly when C and D are not
\* vacuum and floor(A/C) = floor(B/D), and the digit is that floor, for
\* every signed A, B, C, D; otherwise it returns none.
C26_ProbeIsFloor == g_pc = "returned" => ProbeIsFloor(g_state, g_out)

\* the same where neither ratio is negative
ProbeIsFloorOnNonNegative ==
    (g_pc = "returned" /\ g_state.A * g_state.C >= 0 /\ g_state.B * g_state.D >= 0)
        => ProbeIsFloor(g_state, g_out)

\* C26's case: probe has returned 0 on A/C = B/D = -1/2, whose floor is -1
C26_Witness ==
    /\ g_pc = "returned"
    /\ g_state = [A |-> -1, B |-> -1, C |-> 2, D |-> 2]
    /\ g_out = <<0>>

\* ------------------------------------------------------------------------
\* polynomial.py over either integer backend: the coefficient list after
\* __post_init__, evaluate, shift, reverse
\* ------------------------------------------------------------------------
RECURSIVE Polynomial_post_init(_, _)
Polynomial_post_init(m, coeffs) ==
    IF Len(coeffs) > 1 /\ is_vacuum(m, coeffs[Len(coeffs)])
    THEN Polynomial_post_init(m, SubSeq(coeffs, 1, Len(coeffs) - 1))
    ELSE coeffs

\* evaluate: result = coeffs[-1], then result * x + coeffs[i] downward
RECURSIVE Horner(_, _, _, _)
Horner(m, coeffs, x, i) ==
    IF i = Len(coeffs) THEN coeffs[i]
    ELSE add(m, mul(m, Horner(m, coeffs, x, i + 1), x), coeffs[i])

evaluate(m, coeffs, x) == Horner(m, coeffs, x, 1)

\* the inner loop of shift, j (here 1-based) from n down to lo
RECURSIVE shift_inner(_, _, _, _, _)
shift_inner(m, cs, c, j, lo) ==
    IF j < lo THEN cs
    ELSE shift_inner(m, [cs EXCEPT ![j] = add(m, @, mul(m, cs[j + 1], c))], c, j - 1, lo)

\* the outer loop of shift, i from 0 to n - 1
RECURSIVE shift_outer(_, _, _, _)
shift_outer(m, cs, c, i) ==
    IF i >= Len(cs) - 1 THEN cs
    ELSE shift_outer(m, shift_inner(m, cs, c, Len(cs) - 1, i + 1), c, i + 1)

\* a slip in shift: only the first pass of the outer loop is made
shift_once(m, coeffs, c) ==
    Polynomial_post_init(m, shift_inner(m, coeffs, c, Len(coeffs) - 1, 1))

shift(m, coeffs, c) == Polynomial_post_init(m, shift_outer(m, coeffs, c, 0))

RECURSIVE reversed(_)
reversed(cs) == IF cs = << >> THEN << >> ELSE Append(reversed(Tail(cs)), Head(cs))

reverse(m, coeffs) == Polynomial_post_init(m, reversed(coeffs))

\* test_algebraic.py make_poly: the Polynomial of a list of ints
RECURSIVE make_objs(_, _)
make_objs(m, ints) ==
    IF ints = << >> THEN << >> ELSE <<Matter(m, Head(ints))>> \o make_objs(m, Tail(ints))

make_poly(m, ints) == Polynomial_post_init(m, make_objs(m, ints))

\* unary.py / science_mode.py: u > v
gt(m, u, v) ==
    IF m = "physics"
    THEN CASE (~u.neg) /\ (~v.neg) -> unary_len(u) > unary_len(v)
           [] (~u.neg) /\ v.neg -> TRUE
           [] u.neg /\ (~v.neg) -> FALSE
           [] u.neg /\ v.neg -> unary_len(u) < unary_len(v)
    ELSE u > v

\* ------------------------------------------------------------------------
\* algorithms.py: AlgebraicStream, one pass of the scan loop per action
\* ------------------------------------------------------------------------
max_iter == 1000
ScanLimit == 1000

\* the quadratics c0 + c1 x + c2 x^2 with small coefficients, low to high
AlgCoefs == (-MaxAlgCoef)..MaxAlgCoef
AlgPolys == {<<c0, c1, c2>> : c0 \in AlgCoefs, c1 \in AlgCoefs, c2 \in AlgCoefs}

ZERO(m) == Matter(m, 0)

\* start_sign of a step: (current_P.evaluate(ZERO) > ZERO)
start_sign(m, P) == gt(m, evaluate(m, P, ZERO(m)), ZERO(m))

InitAlg ==
    /\ a_dom \in Modes
    /\ a_in \in AlgPolys
    /\ a_P = make_poly(a_dom, a_in)
    /\ a_k = 0
    /\ a_sign = start_sign(a_dom, make_poly(a_dom, a_in))
    /\ a_step = 0
    /\ a_out = << >>
    /\ a_pc = "scan"
    /\ EngineIdle
    /\ EuclidIdle
    /\ AuxIdle
    /\ CacheIdle

\* the consumer asks for MaxAlgTerms terms and then abandons the generator
AlgDemanded == Len(a_out) < MaxAlgTerms

val_next == evaluate(a_dom, a_P, Matter(a_dom, a_k + 1))

\* val_next is vacuum: yield next_k_obj, return
AlgRoot ==
    /\ a_pc = "scan" /\ AlgDemanded
    /\ is_vacuum(a_dom, val_next)
    /\ a_out' = yield(a_out, Matter(a_dom, a_k + 1))
    /\ a_pc' = "done"
    /\ UNCHANGED <<a_dom, a_in, a_P, a_k, a_sign, a_step, caseVars, engineVars, euclidVars, auxVars, cacheVars>>

\* the sign has not flipped: k_int += 1
AlgAdvance ==
    /\ a_pc = "scan" /\ AlgDemanded
    /\ ~is_vacuum(a_dom, val_next)
    /\ a_sign = gt(a_dom, val_next, ZERO(a_dom))
    /\ a_k + 1 <= ScanLimit
    /\ a_k' = a_k + 1
    /\ UNCHANGED <<a_dom, a_in, a_P, a_sign, a_step, a_out, a_pc, caseVars, engineVars, euclidVars, auxVars, cacheVars>>

\* the sign has not flipped and k_int exceeds the limit: RuntimeError
AlgScanFail ==
    /\ a_pc = "scan" /\ AlgDemanded
    /\ ~is_vacuum(a_dom, val_next)
    /\ a_sign = gt(a_dom, val_next, ZERO(a_dom))
    /\ a_k + 1 > ScanLimit
    /\ a_k' = a_k + 1
    /\ a_pc' = "failed"
    /\ UNCHANGED <<a_dom, a_in, a_P, a_sign, a_step, a_out, caseVars, engineVars, euclidVars, auxVars, cacheVars>>

\* the sign flipped: yield k_obj, current_P = shift(k_obj).reverse(), and
\* either the next step of the for loop begins or the generator returns
AlgEmit ==
    /\ a_pc = "scan" /\ AlgDemanded
    /\ ~is_vacuum(a_dom, val_next)
    /\ a_sign # gt(a_dom, val_next, ZERO(a_dom))
    /\ a_out' = yield(a_out, Matter(a_dom, a_k))
    /\ LET P == reverse(a_dom, shift(a_dom, a_P, Matter(a_dom, a_k)))
       IN /\ a_P' = P
          /\ IF Len(P) <= 1 \/ a_step + 1 >= max_iter
             THEN a_pc' = "done" /\ UNCHANGED <<a_k, a_sign>>
             ELSE a_pc' = "scan" /\ a_k' = 0 /\ a_sign' = start_sign(a_dom, P)
    /\ a_step' = a_step + 1
    /\ UNCHANGED <<a_dom, a_in, caseVars, engineVars, euclidVars, auxVars, cacheVars>>

NextAlg == AlgRoot \/ AlgAdvance \/ AlgScanFail \/ AlgEmit

SpecAlg == InitAlg /\ [][NextAlg]_vars

\* the number of sign changes along the non-zero entries of an int list
RECURSIVE SignChanges(_, _)
SignChanges(cs, last) ==
    IF cs = << >> THEN 0
    ELSE IF Head(cs) = 0 THEN SignChanges(Tail(cs), last)
    ELSE (IF last # 0 /\ Sign(Head(cs)) # last THEN 1 ELSE 0)
            + SignChanges(Tail(cs), Sign(Head(cs)))

\* Descartes' rule: one sign change, exactly one positive root
OnePositiveRoot(cs) == SignChanges(cs, 0) = 1

RECURSIVE Pow(_, _)
Pow(b, n) == IF n = 0 THEN 1 ELSE b * Pow(b, n - 1)

\* q^d * P(p/q) for the int polynomial cs of degree at most d = Len(cs) - 1
RECURSIVE HomEval(_, _, _, _)
HomEval(cs, p, q, i) ==
    IF i > Len(cs) THEN 0
    ELSE (cs[i] * Pow(p, i - 1) * Pow(q, Len(cs) - i)) + HomEval(cs, p, q, i + 1)

AtFraction(cs, c) == HomEval(cs, c[1], c[2], 1)

\* the n-th term is the integer part of what the terms before it leave of
\* the root: the root of cs lies in [ [t1..tn], [t1..tn + 1] ), and it is
\* [t1..tn] itself only when the stream has stopped there
TermIsIntegerPart(cs, ts, n, stopped) ==
    LET lo == FoldFrom(SubSeq(ts, 1, n), 1)
        hi == FoldFrom(Append(SubSeq(ts, 1, n - 1), ts[n] + 1), 1)
    IN /\ ts[n] >= (IF n = 1 THEN 0 ELSE 1)
       /\ lo[2] # 0 /\ hi[2] # 0
       /\ IF AtFraction(cs, lo) = 0 THEN n = Len(ts) /\ stopped
          ELSE Sign(AtFraction(cs, lo)) * Sign(AtFraction(cs, hi)) = -1

TermsOfRoot ==
    \A n \in 1..Len(a_out) :
        TermIsIntegerPart(a_in, IntSeq(a_dom, a_out), n, a_pc = "done")

\* test_algebraic.py: the three expected sequences
ExpectedAlg(cs) ==
    CASE cs = <<-2, 0, 1>> -> <<1, 2, 2, 2, 2>>
      [] cs = <<-1, -1, 1>> -> <<1, 1, 1, 1, 1>>
      [] cs = <<-3, 0, 1>> -> <<1, 1, 2, 1, 2>>
      [] OTHER -> << >>

ExamplesAsExpected ==
    ExpectedAlg(a_in) # << >>
        => /\ a_pc = "scan"
           /\ \A n \in 1..Len(a_out) :
                  n <= Len(ExpectedAlg(a_in))
                      => safe_int_val(a_dom, a_out[n]) = ExpectedAlg(a_in)[n]

\* C27: on both integer backends AlgebraicStream yields the simple
\* continued fraction of the positive root of its polynomial: every
\* term is the integer part of what is left of the root, the stream stops
\* exactly on an integer root, and x^2-2, x^2-x-1, x^2-3 give
\* [1,2,2,2,2], [1,1,1,1,1], [1,1,2,1,2].
C27_AlgebraicTerms ==
    (a_pc # "idle" /\ OnePositiveRoot(a_in)) => (TermsOfRoot /\ ExamplesAsExpected)

\* the same for the polynomials that do not vanish at 0
AlgebraicTermsOffZero ==
    (a_pc # "idle" /\ OnePositiveRoot(a_in) /\ a_in[1] # 0)
        => (TermsOfRoot /\ ExamplesAsExpected /\ a_pc # "failed")

\* C27's case: for 2x - x^2, whose positive root is 2, both backends have
\* yielded [0, 0, 2]
C27_Witness ==
    /\ a_in = <<0, 2, -1>>
    /\ a_pc = "done"
    /\ IntSeq(a_dom, a_out) = <<0, 0, 2>>

\* ------------------------------------------------------------------------
\* riemann_siegel.py: CachedStream over a source Stream(Euclid(p, q)) of
\* FastIntegers, and the Streams spawn() returns
\* ------------------------------------------------------------------------
\* __init__: the source is consumed while its head is not None
RECURSIVE CachedStream_init(_, _, _)
CachedStream_init(m, source_stream, data) ==
    IF Stream_head(source_stream) = << >> \/ consume(m, source_stream).raised
    THEN [data |-> data, source |-> source_stream]
    ELSE CachedStream_init(m, consume(m, source_stream).stream,
                           data \o consume(m, source_stream).val)

spawn(data) == Stream("science", reader(data))

CacheInputs == ((-MaxNum)..MaxNum) \X (0..MaxDen)

InitCache ==
    /\ c_in \in CacheInputs
    /\ c_source = make_cf("science", c_in)
    /\ c_data = << >>
    /\ c_spawned = << >>
    /\ c_got = << >>
    /\ c_pc = "new"
    /\ EngineIdle
    /\ EuclidIdle
    /\ AuxIdle
    /\ AlgIdle

\* CachedStream(source_stream)
CacheConstruct ==
    /\ c_pc = "new"
    /\ c_data' = CachedStream_init("science", c_source, << >>).data
    /\ c_source' = CachedStream_init("science", c_source, << >>).source
    /\ c_pc' = "ready"
    /\ UNCHANGED <<c_in, c_spawned, c_got, caseVars, engineVars, euclidVars, auxVars, algVars>>

\* cache.spawn()
CacheSpawn ==
    /\ c_pc = "ready"
    /\ Len(c_spawned) < MaxSpawn
    /\ c_spawned' = Append(c_spawned, spawn(c_data))
    /\ c_got' = Append(c_got, << >>)
    /\ UNCHANGED <<c_in, c_source, c_data, c_pc, caseVars, engineVars, euclidVars, auxVars, algVars>>

\* consume() on the i-th spawned Stream: a value is returned, or
\* StopIteration is raised and nothing changes
CacheConsume(i) ==
    /\ c_pc = "ready"
    /\ LET r == consume("science", c_spawned[i])
       IN /\ c_spawned' = [c_spawned EXCEPT ![i] = r.stream]
          /\ c_got' = [c_got EXCEPT ![i] = @ \o r.val]
    /\ UNCHANGED <<c_in, c_source, c_data, c_pc, caseVars, engineVars, euclidVars, auxVars, algVars>>

NextCache ==
    \/ CacheConstruct
    \/ CacheSpawn
    \/ \E i \in 1..Len(c_spawned) : CacheConsume(i)

SpecCache == InitCache /\ [][NextCache]_vars

\* the terms of the source of the CachedStream
SourceTerms ==
    EuclidTerms("science", Euclid(Matter("science", c_in[1]), Matter("science", c_in[2])))

\* the buffer holds the whole source, which is exhausted; every spawned
\* Stream has returned a prefix of the buffer and shows the next item of it
CacheServesAll ==
    c_pc = "ready" =>
        /\ c_data = SourceTerms
        /\ Stream_head(c_source) = << >>
        /\ \A i \in 1..Len(c_spawned) :
               /\ IsPrefix(c_got[i], c_data)
               /\ Stream_head(c_spawned[i]) =
                      (IF Len(c_got[i]) < Len(c_data) THEN <<c_data[Len(c_got[i]) + 1]>>
                       ELSE << >>)

\* a step that moves one spawned Stream leaves the buffer and every other
\* spawned Stream as they were
CacheFrame ==
    \A i \in 1..Len(c_spawned) :
        (c_spawned'[i] # c_spawned[i] \/ c_got'[i] # c_got[i])
            => /\ c_data' = c_data
               /\ \A j \in (1..Len(c_spawned)) \ {i} :
                      c_spawned'[j] = c_spawned[j] /\ c_got'[j] = c_got[j]

\* C28: CachedStream gives independent cursors.  Construction consumes
\* the finite source to exhaustion into the buffer; every Stream that
\* spawn() returns yields the whole buffer from its first term whatever
\* the interleaving of consume calls on the other spawned Streams, and
\* consuming one spawned Stream leaves the buffer and the others unchanged.
C28_IndependentCursors == [][CacheServesAll' /\ CacheFrame]_vars

\* C28's case: over 2/3 = [0; 1, 2] the first spawned Stream has been read
\* to its end while the second, spawned as well, has returned one term
C28_Witness ==
    /\ c_in = <<2, 3>> /\ c_pc = "ready" /\ Len(c_spawned) = 2
    /\ c_got[1] = <<0, 1, 2>> /\ Stream_head(c_spawned[1]) = << >>
    /\ c_got[2] = <<0>> /\ Stream_head(c_spawned[2]) = <<1>>

\* ------------------------------------------------------------------------
\* gosper_engine and gcf_to_scf side by side: a run of either
\* ------------------------------------------------------------------------
InitPull == Init \/ InitGcf

NextPull == Next \/ NextGcf

SpecPull == InitPull /\ [][NextPull]_vars

\* an operand Stream of the engine moves only by a consume that does not
\* raise, on a stream flagged alive whose head is not None; a flag is
\* cleared only in a step in which the head is None, is never set again,
\* and a stream flagged dead is left as it is
EngineKeepsOffExhaustion(alive, stream, m) ==
    /\ stream'[m] # stream[m]
           => /\ alive[m] /\ Stream_head(stream[m]) # << >>
              /\ ~consume(m, stream[m]).raised
              /\ stream'[m] = consume(m, stream[m]).stream
    /\ (alive[m] /\ ~alive'[m]) => Stream_head(stream[m]) = << >>
    /\ ~alive[m] => (~alive'[m] /\ stream'[m] = stream[m])

EngineNeverSignals ==
    \A m \in Modes :
        /\ EngineKeepsOffExhaustion(x_alive, x_stream, m)
        /\ EngineKeepsOffExhaustion(y_alive, y_stream, m)

\* a step of gcf_to_scf in which next(gcf_stream) raised StopIteration:
\* stream_active is cleared in the except branch and nowhere else
GcfMeetsExhaustion == g_pc = "loop" /\ g_active /\ ~g_active'

\* C29 as stated: neither gosper_engine nor gcf_to_scf ever triggers the
\* exhaustion signal.  The engine consumes a stream only after reading a
\* head that is not None, clears a flag only on a None head, never sets it
\* again and leaves a dead stream alone; gcf_to_scf never has next() raise.
C29_NoSelfExhaustion == [][EngineNeverSignals /\ ~GcfMeetsExhaustion]_vars

\* C29 amended: gosper_engine never triggers the exhaustion signal (as
\* above).  gcf_to_scf pulls its source with next() without looking
\* first: on a finite source it meets StopIteration, exactly when the
\* source has nothing left, catches it, clears stream_active, and from
\* then on never pulls the source and never sets stream_active again.
C29_NoSelfExhaustionAmended ==
    [][/\ EngineNeverSignals
       /\ GcfMeetsExhaustion => gcf_next(g_src, g_pos) = << >>
       /\ ~g_active => (~g_active' /\ g_pos' = g_pos)]_vars

\* C29's case: gcf_to_scf over a source of two pairs has pulled both, met
\* the end of the source and gone on to drain
C29_Witness ==
    /\ g_src.kind = "list" /\ Len(g_src.items) = 2
    /\ g_pos = 2 /\ ~g_active /\ g_pc \in {"drain", "done"}

\* the engine's case: a run has consumed terms of x and of y and has found
\* both exhausted
EngineFoundBothDead ==
    /\ pc["science"] = "done" /\ ~x_alive["science"] /\ ~y_alive["science"]
    /\ x_stream["science"].pos >= 1 /\ y_stream["science"].pos >= 1

\* ------------------------------------------------------------------------
\* Euclid, gosper_engine and gcf_to_scf side by side: a run of any of them
\* ------------------------------------------------------------------------
InitDivides == Init \/ InitEuclid \/ InitGcf

NextDivides == Next \/ NextEuclid \/ NextGcf

SpecDivides == InitDivides /\ [][NextDivides]_vars

\* the (numerator, denominator) pairs get_floor is called with in the next
\* iteration of the engine's loop
LoopRatios(m) ==
    LET s == state[m]
    IN {<<s.a, s.e>>}
       \cup (IF x_alive[m] /\ y_alive[m]
             THEN {<<add(m, add(m, add(m, s.a, s.b), s.c), s.d),
                     add(m, add(m, add(m, s.e, s.f), s.g), s.h)>>}
             ELSE {})
       \cup (IF y_alive[m] THEN {<<add(m, s.a, s.b), add(m, s.e, s.f)>>} ELSE {})
       \cup (IF x_alive[m] THEN {<<add(m, s.a, s.c), add(m, s.e, s.g)>>} ELSE {})

\* the divisor passes the is_vacuum check only if the division accepts it
GuardedDivision(m, num, den) ==
    ~is_vacuum(m, den) => divide(m, num, den) # ZeroDivisionError

\* Euclid's loop yields nothing exactly where the division would fail
EuclidStopsWhereUndefined(m, gen) ==
    (Euclid_next(m, gen).yielded = << >>)
        <=> (divide(m, gen.curr_num, gen.curr_den) = ZeroDivisionError)

\* at every place where the next step of a run may divide, a divisor that
\* passes the is_vacuum check divides without failing
GuardSuffices ==
    /\ \A m \in Modes :
           /\ pc[m] = "loop" => \A r \in LoopRatios(m) : GuardedDivision(m, r[1], r[2])
           /\ pc[m] = "drain" => GuardedDivision(m, curr[m].curr_num, curr[m].curr_den)
           /\ pc[m] # "idle"
                  => /\ GuardedDivision(m, x_stream[m].gen.curr_num, x_stream[m].gen.curr_den)
                     /\ GuardedDivision(m, y_stream[m].gen.curr_num, y_stream[m].gen.curr_den)
    /\ (e_pc = "run" /\ e_dom \in Modes)
           => GuardedDivision(e_dom, e_gen.curr_num, e_gen.curr_den)
    /\ g_pc = "loop"
           => /\ GuardedDivision("science", g_state.A, g_state.C)
              /\ GuardedDivision("science", g_state.B, g_state.D)
    /\ g_pc = "drain" => GuardedDivision("science", g_curr.curr_num, g_curr.curr_den)

\* get_floor, probe's get_floor and Euclid's loop give no quotient exactly
\* where the division would fail
NoQuotientWhereUndefined ==
    /\ \A m \in Modes :
           /\ pc[m] = "loop"
                  => \A r \in LoopRatios(m) :
                         (get_floor(m, r[1], r[2]) = None)
                             <=> (divide(m, r[1], r[2]) = ZeroDivisionError)
           /\ pc[m] # "idle"
                  => /\ EuclidStopsWhereUndefined(m, x_stream[m].gen)
                     /\ EuclidStopsWhereUndefined(m, y_stream[m].gen)
    /\ (e_pc = "run" /\ e_dom \in Modes) => EuclidStopsWhereUndefined(e_dom, e_gen)
    /\ g_pc = "loop"
           => /\ (GCF_get_floor(g_state.A, g_state.C) = None)
                     <=> (divide("science", g_state.A, g_state.C) = ZeroDivisionError)
              /\ (GCF_get_floor(g_state.B, g_state.D) = None)
                     <=> (divide("science", g_state.B, g_state.D) = ZeroDivisionError)

\* Euclid(p, 0) yields no term and ends
EuclidOfZeroDenominator ==
    (e_pc # "idle" /\ e_dom \in Modes /\ e_in[2] = 0)
        => (e_out = << >> /\ Euclid_next(e_dom, e_gen).yielded = << >>)

\* a state with e vacuum has None as its a/e candidate
VacuumDenominatorGivesNone ==
    \A m \in Modes :
        (pc[m] = "loop" /\ is_vacuum(m, state[m].e)) => cands(m)[1] = None

\* C30: no run of Euclid, gosper_engine or gcf_to_scf over integer Matter
\* divides by a vacuum value.  At every place where a step may divide, the
\* is_vacuum check lets through only divisors the division accepts;
\* Euclid(p, 0) yields no term and raises nothing, and a state with e
\* vacuum has no a/e candidate.
C30_NoVacuumDivision ==
    /\ GuardSuffices
    /\ NoQuotientWhereUndefined
    /\ EuclidOfZeroDenominator
    /\ VacuumDenominatorGivesNone

\* C30's case: the unary run of 0 - (1/3) stands in the loop where e is
\* vacuum while another candidate's denominator is not
C30_Witness ==
    /\ op = "sub" /\ xin = <<0, 1>> /\ yin = <<1, 3>>
    /\ pc["physics"] = "loop"
    /\ x_stream["physics"].pos >= 1
    /\ is_vacuum("physics", state["physics"].e)
    /\ \E r \in LoopRatios("physics") : ~is_vacuum("physics", r[2])

\* Euclid's case: Euclid(2, 0) on the unary backend has ended with no term
EuclidZeroEnded == e_dom = "physics" /\ e_in = <<2, 0>> /\ e_pc = "done" /\ e_out = << >>

====
